---- MODULE Spec2Model ----
(***************************************************************************)
(* Pay-to-access backend (TSE-X / X.402): challenge issuance, payment      *)
(* verification, bearer credentials and the gated device commands.         *)
(*                                                                         *)
(* Time is counted in whole seconds since the server started (the JWT      *)
(* claims iat/exp are floor(Date.now()/1000); the challenge TTL is a whole *)
(* number of seconds).  Token amounts are counted in a scaled minor unit   *)
(* so that they fit the model checker's integers: only sums and            *)
(* comparisons of amounts are modelled, which scaling preserves.           *)
(***************************************************************************)
EXTENDS Integers, Sequences, FiniteSets, TLC

\* ------------------------------------------------------------------------
\* Bounds of the model
\* ------------------------------------------------------------------------
MaxNow == 1200
TickStep == 600
MaxChallenges == 2
MaxRaceChallenges == 1
MaxReq == 2
MaxCmdNow == 1800
CmdTickStep == 1800
MaxCmdChallenges == 1
\* the clock of the device state machine: 0, 900 and 1800 seconds
MaxDevNow == 1800
DevTickStep == 900

\* ------------------------------------------------------------------------
\* Program constants
\* ------------------------------------------------------------------------
\* ttlSeconds passed by POST /x402/:deviceId/challenge
CHALLENGE_TTL == 600
\* lifetime of a session token and of an X.402 access token, in seconds
TOKEN_TTL == 1800
\* required TSE amount (scaled: the source value is 15954052329292)
TSE_COST == 4
\* required USDC amount: ethers.parseUnits('0.50', 6)
USDC_COST == 500000
TSE_MINT == "mintTSE"
TSE_RECEIVER_WALLET == "receiverTSE"

\* the device catalog
devices ==
  [d \in {"X402-LOCK-001", "X402-LOCK-002", "X402-COFFEE-001"} |->
     [deviceId |-> d,
      supportsLock |-> (d # "X402-COFFEE-001"),
      supportsTimer |-> (d = "X402-COFFEE-001")]]

\* a property an object literal inherits from Object.prototype
PrototypeKeys == {"constructor"}

\* devices[deviceId] is truthy: the id is a key of the catalog or a key the
\* object literal inherits
DeviceFound(deviceId) == deviceId \in DOMAIN devices \/ deviceId \in PrototypeKeys

\* ------------------------------------------------------------------------
\* Inputs of the requests
\* ------------------------------------------------------------------------
\* the empty string stands for a missing (falsy) body field
DeviceInputs == {"X402-LOCK-001", "X402-COFFEE-001", "X402-UNKNOWN"}
WalletInputs == {"", "walletA", "walletB"}
\* the wallets that ask for a challenge
ChallengeWalletInputs == {"", "walletA"}
TxInputs == {"", "txPay", "txLow"}
\* 0 stands for a missing challengeId
ChallengeInputs == 0..MaxChallenges
\* the empty string stands for a body without paymentMethod
PaymentMethodInputs == {"", "tse"}

\* ------------------------------------------------------------------------
\* The chain, as seen through connection.getTransaction
\* ------------------------------------------------------------------------
\* stands for a balance entry without uiTokenAmount
NoAmount == -1

Bal(idx, mint, owner, amount) ==
  [accountIndex |-> idx, mint |-> mint, owner |-> owner, amount |-> amount]

NoTx == [found |-> FALSE, hasMeta |-> FALSE, err |-> FALSE,
         preTokenBalances |-> << >>, postTokenBalances |-> << >>]

ChainTx(txHash) ==
  CASE txHash = "txPay" ->
         [found |-> TRUE, hasMeta |-> TRUE, err |-> FALSE,
          preTokenBalances |-> << Bal(1, TSE_MINT, "payer", TSE_COST + 1),
                                  Bal(2, TSE_MINT, TSE_RECEIVER_WALLET, 1) >>,
          postTokenBalances |-> << Bal(1, TSE_MINT, "payer", 1),
                                   Bal(2, TSE_MINT, TSE_RECEIVER_WALLET, TSE_COST + 1) >>]
    [] txHash = "txLow" ->
         [found |-> TRUE, hasMeta |-> TRUE, err |-> FALSE,
          preTokenBalances |-> << Bal(1, TSE_MINT, "payer", TSE_COST),
                                  Bal(2, TSE_MINT, TSE_RECEIVER_WALLET, 1) >>,
          postTokenBalances |-> << Bal(1, TSE_MINT, "payer", 1),
                                   Bal(2, TSE_MINT, TSE_RECEIVER_WALLET, TSE_COST) >>]
    \* the transaction failed on chain; its balances read like a payment
    [] txHash = "txErr" ->
         [found |-> TRUE, hasMeta |-> TRUE, err |-> TRUE,
          preTokenBalances |-> << Bal(1, TSE_MINT, "payer", TSE_COST + 1),
                                  Bal(2, TSE_MINT, TSE_RECEIVER_WALLET, 1) >>,
          postTokenBalances |-> << Bal(1, TSE_MINT, "payer", 1),
                                   Bal(2, TSE_MINT, TSE_RECEIVER_WALLET, TSE_COST + 1) >>]
    \* the node returned the transaction without its meta
    [] txHash = "txNoMeta" ->
         [found |-> TRUE, hasMeta |-> FALSE, err |-> FALSE,
          preTokenBalances |-> << >>, postTokenBalances |-> << >>]
    \* TSE_COST is moved from the payer to a stranger's token account
    [] txHash = "txOther" ->
         [found |-> TRUE, hasMeta |-> TRUE, err |-> FALSE,
          preTokenBalances |-> << Bal(1, TSE_MINT, "payer", TSE_COST + 1),
                                  Bal(2, TSE_MINT, "stranger", 0) >>,
          postTokenBalances |-> << Bal(1, TSE_MINT, "payer", 1),
                                   Bal(2, TSE_MINT, "stranger", TSE_COST) >>]
    \* one unit is moved from the payer to a token account created by the
    \* transaction (account 2 has no pre-balance entry); account 3 is untouched
    [] txHash = "txShift" ->
         [found |-> TRUE, hasMeta |-> TRUE, err |-> FALSE,
          preTokenBalances |-> << Bal(1, TSE_MINT, "payer", 2),
                                  Bal(3, TSE_MINT, "bystander", TSE_COST) >>,
          postTokenBalances |-> << Bal(1, TSE_MINT, "payer", 1),
                                   Bal(2, TSE_MINT, "stranger", 1),
                                   Bal(3, TSE_MINT, "bystander", TSE_COST) >>]
    \* a post-balance entry of the mint lacks uiTokenAmount
    [] txHash = "txMalformed" ->
         [found |-> TRUE, hasMeta |-> TRUE, err |-> FALSE,
          preTokenBalances |-> << Bal(1, TSE_MINT, "payer", TSE_COST + 1) >>,
          postTokenBalances |-> << Bal(1, TSE_MINT, "payer", 1),
                                   Bal(2, TSE_MINT, TSE_RECEIVER_WALLET, NoAmount) >>]
    [] OTHER -> NoTx

\* ------------------------------------------------------------------------
\* The Base chain, as seen through eth_getTransactionReceipt
\* ------------------------------------------------------------------------
\* BASE_USDC_RECEIVER, BASE_USDC_CONTRACT (server.js) and RECEIVER,
\* USDC_ADDRESS (verifyBasePayment.js), all stored in lower case
BASE_USDC_RECEIVER == "0xreceiver"
BASE_USDC_CONTRACT == "0xusdc"
RECEIVER == "0xreceiver"
USDC_ADDRESS == "0xusdbc"
TRANSFER_TOPIC == "0xddf2"
\* the signature topic of Approval(address,address,uint256)
APPROVAL_TOPIC == "0x8c5b"

\* String.prototype.toLowerCase on the addresses and topics of the model
toLowerCase(str) ==
  CASE str = "0xReceiver" -> "0xreceiver"
    [] str = "0xUSDC" -> "0xusdc"
    [] str = "0xUSDbC" -> "0xusdbc"
    [] str = "0xDDF2" -> "0xddf2"
    [] OTHER -> str

\* "0x" + toTopic.slice(-40) and "0x" + topics[2].substring(26): the last
\* 20 bytes of a 32-byte topic, in the spelling the node returned
TopicAddress(topic) ==
  CASE topic = "pad:0xReceiver" -> "0xReceiver"
    [] topic = "pad:0xreceiver" -> "0xreceiver"
    [] topic = "pad:0xstranger" -> "0xstranger"
    [] topic = "pad:0xpayer" -> "0xpayer"
    [] OTHER -> topic

\* log.data: a value, NoData when the field is absent, BadData when it is
\* "0x" followed by characters that are no hexadecimal digits
NoData == -1
BadData == -2

EvmLog(address, topics, data) ==
  [address |-> address, topics |-> topics, data |-> data]

\* a Transfer(from, to, value) event emitted by the contract at address
TransferLog(address, to, value) ==
  EvmLog(address, << TRANSFER_TOPIC, "pad:0xpayer", to >>, value)

NoReceipt == [found |-> FALSE, status |-> "", to |-> "", logs |-> << >>]

EvmReceipt(status, to, logs) ==
  [found |-> TRUE, status |-> status, to |-> to, logs |-> logs]

\* the receipts the node returns.  First the transactions sent to the USDC
\* contract of server.js, where the price of 15 minutes is 100000 units
Receipt(txHash) ==
  CASE txHash = "txExact" ->
         EvmReceipt("0x1", "0xUSDC",
           << TransferLog("0xUSDC", "pad:0xReceiver", 100000) >>)
    [] txHash = "txShort" ->
         EvmReceipt("0x1", "0xUSDC",
           << TransferLog("0xUSDC", "pad:0xReceiver", 99999) >>)
    [] txHash = "txSplit" ->
         EvmReceipt("0x1", "0xUSDC",
           << TransferLog("0xUSDC", "pad:0xreceiver", 60000),
              EvmLog("0xusdc", << "0xDDF2", "pad:0xpayer", "pad:0xReceiver" >>,
                     50000) >>)
    \* 40000 units to the receiver among logs that do not qualify
    [] txHash = "txMixed" ->
         EvmReceipt("0x1", "0xUSDC",
           << TransferLog("0xother", "pad:0xReceiver", 100000),
              EvmLog("0xUSDC", << APPROVAL_TOPIC, "pad:0xpayer", "pad:0xReceiver" >>,
                     100000),
              TransferLog("0xUSDC", "pad:0xstranger", 100000),
              EvmLog("0xUSDC", << TRANSFER_TOPIC, "pad:0xReceiver" >>, 100000),
              EvmLog("0xUSDC", << TRANSFER_TOPIC, "pad:0xpayer", "pad:0xReceiver" >>,
                     NoData),
              TransferLog("0xUSDC", "pad:0xReceiver", 40000) >>)
    \* reverted on chain; its logs read like a payment
    [] txHash = "txFailed" ->
         EvmReceipt("0x0", "0xUSDC",
           << TransferLog("0xUSDC", "pad:0xReceiver", 100000) >>)
    [] txHash = "txBadData" ->
         EvmReceipt("0x1", "0xUSDC",
           << TransferLog("0xUSDC", "pad:0xReceiver", BadData) >>)
    \* transactions sent to the token contract of verifyBasePayment.js; the
    \* price of 15 minutes is 1000000 units
    [] txHash = "payExact" ->
         EvmReceipt("0x1", "0xUSDbC",
           << TransferLog("0xUSDbC", "pad:0xReceiver", 1000000) >>)
    [] txHash = "payShort" ->
         EvmReceipt("0x1", "0xUSDbC",
           << TransferLog("0xUSDbC", "pad:0xReceiver", 999999) >>)
    \* the qualifying log is the second of the list
    [] txHash = "paySecond" ->
         EvmReceipt("0x1", "0xUSDbC",
           << TransferLog("0xUSDbC", "pad:0xstranger", 5),
              TransferLog("0xUSDbC", "pad:0xReceiver", 1000000) >>)
    \* an allowance given to the receiver: no token moves
    [] txHash = "payApproval" ->
         EvmReceipt("0x1", "0xUSDbC",
           << EvmLog("0xUSDbC", << APPROVAL_TOPIC, "pad:0xpayer", "pad:0xReceiver" >>,
                     1000000) >>)
    [] txHash = "payFailed" ->
         EvmReceipt("0x0", "0xUSDbC",
           << TransferLog("0xUSDbC", "pad:0xReceiver", 1000000) >>)
    [] txHash = "payNoTopics" ->
         EvmReceipt("0x1", "0xUSDbC",
           << EvmLog("0xUSDbC", << TRANSFER_TOPIC >>, 1000000) >>)
    [] OTHER -> NoReceipt

\* ------------------------------------------------------------------------
\* Tokens (JWT payload plus the state of its signature)
\* ------------------------------------------------------------------------
NoToken ==
  [type |-> "none", walletAddress |-> "", deviceId |-> "", challengeId |-> 0,
   txHash |-> "", iat |-> 0, exp |-> 0, sig |-> "none"]

\* jwt.sign(payload, JWT_SECRET)
JwtSign(payload) == [payload EXCEPT !.sig = "ok"]

JwtVerify_NoExpiry(token, t) ==
  /\ token.type # "none"
  /\ token.sig = "ok"

\* jwt.verify(token, JWT_SECRET) does not throw: the signature matches and
\* the current time is before exp
JwtVerify(token, t) ==
  /\ token.type # "none"
  /\ token.sig = "ok"
  /\ t < token.exp

\* ------------------------------------------------------------------------
\* State
\* ------------------------------------------------------------------------
VARIABLES
  now,         \* Date.now(), in seconds
  challenges,  \* the challenge table: challengeId -> record
  reqs,        \* the POST /x402/:deviceId/verify requests suspended on the chain query
  last,        \* the last response sent, with the request it answers (txHash:
               \* the hash a request carried into a chain query)
  grants,      \* per challenge, the number of verified:true responses sent (2: two or more)
  held,        \* the bearer token the client holds
  deviceStates, \* the device table of the unlock service: id -> state
  stateFile,   \* state/devices.json of the file-backed unlock service
  proofUses,   \* per txHash, the unlocks POST /api/unlock-confirm granted on it (2: two or more)
  calc         \* a call of usdcToUnits: its argument and, once it has returned, its result

vars == << now, challenges, reqs, last, grants, held, deviceStates, stateFile, proofUses, calc >>

Idle ==
  [pc |-> "idle", deviceId |-> "", walletAddress |-> "", challengeId |-> 0,
   txHash |-> "", minutes |-> 0]

\* the units of a call that has not returned
Pending == -1

\* no call is being made
NoCalc == [amountStr |-> [whole |-> 0, frac |-> << >>], units |-> Pending]

NoAuth == [scheme |-> "none", token |-> NoToken]

\* no record: the device table had no entry for the id
NoRecord == [state |-> "none", unlockUntil |-> 0]

\* state, unlockUntil, remainingMs and expiresAt are fields of the response
\* body; prior is the record the operation found for the device
NoResponse ==
  [route |-> "none", deviceId |-> "", challengeId |-> 0, auth |-> NoAuth,
   at |-> 0, status |-> 0, token |-> NoToken, bodyTxHash |-> "",
   chain |-> "none", txHash |-> "", state |-> "", unlockUntil |-> 0,
   remainingMs |-> 0, expiresAt |-> 0, prior |-> NoRecord]

Init ==
  /\ now = 0
  /\ challenges = << >>
  /\ reqs = [r \in 1..MaxReq |-> Idle]
  /\ last = NoResponse
  /\ grants = [c \in 1..MaxChallenges |-> 0]
  /\ held = NoToken
  /\ deviceStates = << >>
  /\ stateFile = << >>
  /\ proofUses = << >>
  /\ calc = NoCalc

\* ------------------------------------------------------------------------
\* X.402 challenge store
\* ------------------------------------------------------------------------
createX402Challenge_Paid(deviceId, walletAddress, chain, token, amount, receiver, ttlSeconds) ==
  [deviceId |-> deviceId,
   walletAddress |-> walletAddress,
   chain |-> chain,
   token |-> token,
   amount |-> amount,
   receiver |-> receiver,
   createdAt |-> now,
   expiresAt |-> now + ttlSeconds,
   paid |-> TRUE,
   txHash |-> "",
   accessToken |-> NoToken]

createX402Challenge(deviceId, walletAddress, chain, token, amount, receiver, ttlSeconds) ==
  [deviceId |-> deviceId,
   walletAddress |-> walletAddress,
   chain |-> chain,
   token |-> token,
   amount |-> amount,
   receiver |-> receiver,
   createdAt |-> now,
   expiresAt |-> now + ttlSeconds,
   paid |-> FALSE,
   txHash |-> "",
   accessToken |-> NoToken]

\* POST /x402/:deviceId/challenge
X402Challenge(deviceId, walletAddress) ==
  LET status == IF ~DeviceFound(deviceId) THEN 404
                ELSE IF walletAddress = "" THEN 400
                ELSE 200
  IN /\ challenges' =
          IF status = 200
          THEN Append(challenges,
                      createX402Challenge(deviceId, walletAddress, "solana",
                                          "TSE", TSE_COST, TSE_RECEIVER_WALLET,
                                          CHALLENGE_TTL))
          ELSE challenges
     /\ last' = [NoResponse EXCEPT !.route = "x402challenge",
                                   !.deviceId = deviceId,
                                   !.at = now,
                                   !.status = status,
                                   !.challengeId =
                                      IF status = 200 THEN Len(challenges) + 1 ELSE 0]
     /\ UNCHANGED << now, reqs, grants, held, deviceStates, stateFile, proofUses, calc >>

\* ------------------------------------------------------------------------
\* Transaction-based TSE verification
\* ------------------------------------------------------------------------
RECURSIVE SumReceived(_, _, _, _)
\* the loop over post[i], old = pre[i]
SumReceived(pre, post, mint, i) ==
  IF i > Len(post) THEN 0
  ELSE LET p == post[i]
           oa == IF i <= Len(pre) THEN pre[i].amount ELSE 0
           diff == p.amount - oa
       IN (IF p.mint = mint /\ diff > 0 THEN diff ELSE 0)
          + SumReceived(pre, post, mint, i + 1)

OnChainFailure_NoMetaOnly(tx) == ~tx.hasMeta

\* !tx.meta || tx.meta.err
OnChainFailure(tx) == ~tx.hasMeta \/ tx.err

\* the loop throws a TypeError: it reads uiTokenAmount.amount of an entry
\* that has no uiTokenAmount
LoopThrows(pre, post, mint) ==
  \E i \in 1..Len(post) :
    /\ post[i].mint = mint
    /\ \/ post[i].amount = NoAmount
       \/ i <= Len(pre) /\ pre[i].amount = NoAmount

\* rpc is the outcome of connection.getTransaction: "ok" or "throw"
verifySolanaTsePaymentByTx(rpc, txHash, expectedReceiver, tokenMint, amountRequired) ==
  LET tx == ChainTx(txHash)
  IN IF rpc = "throw" THEN FALSE
     ELSE IF ~tx.found THEN FALSE
     ELSE IF OnChainFailure(tx) THEN FALSE
     ELSE IF LoopThrows(tx.preTokenBalances, tx.postTokenBalances, tokenMint)
     THEN FALSE
     ELSE SumReceived(tx.preTokenBalances, tx.postTokenBalances, tokenMint, 1)
            >= amountRequired

\* ------------------------------------------------------------------------
\* POST /x402/:deviceId/verify
\* ------------------------------------------------------------------------
\* now > record.expiresAt
Expired(record, t) == t > record.expiresAt

AlreadyPaid_Never(record) == FALSE

\* record.paid
AlreadyPaid(record) == record.paid

\* the checks made before the chain query; 0 when all of them pass
X402VerifyChecks_Unbound(deviceId, walletAddress, challengeId, txHash) ==
  IF ~DeviceFound(deviceId) THEN 404
  ELSE IF walletAddress = "" \/ challengeId = 0 \/ txHash = "" THEN 400
  ELSE IF challengeId \notin DOMAIN challenges THEN 404
  ELSE IF Expired(challenges[challengeId], now) THEN 410
  ELSE IF AlreadyPaid(challenges[challengeId]) THEN 409
  ELSE 0

\* the status the handler answers before the chain query, 0 when it goes on
X402VerifyChecks(deviceId, walletAddress, challengeId, txHash) ==
  IF ~DeviceFound(deviceId) THEN 404
  ELSE IF walletAddress = "" \/ challengeId = 0 \/ txHash = "" THEN 400
  ELSE IF challengeId \notin DOMAIN challenges THEN 404
  ELSE IF challenges[challengeId].deviceId # deviceId THEN 400
  ELSE IF challenges[challengeId].walletAddress # walletAddress THEN 400
  ELSE IF Expired(challenges[challengeId], now) THEN 410
  ELSE IF AlreadyPaid(challenges[challengeId]) THEN 409
  ELSE 0

\* the handler up to the point where it suspends on the chain query
X402VerifyStart(r, deviceId, walletAddress, challengeId, txHash) ==
  LET status == X402VerifyChecks(deviceId, walletAddress, challengeId, txHash)
      request == [NoResponse EXCEPT !.route = "x402verify",
                                    !.deviceId = deviceId,
                                    !.challengeId = challengeId,
                                    !.at = now]
  IN /\ reqs[r].pc = "idle"
     /\ \A q \in 1..(r - 1) : reqs[q].pc # "idle"
     /\ IF status = 0
        THEN /\ reqs' = [reqs EXCEPT ![r] =
                  [pc |-> "await", deviceId |-> deviceId,
                   walletAddress |-> walletAddress,
                   challengeId |-> challengeId, txHash |-> txHash,
                   minutes |-> 0]]
             /\ UNCHANGED last
        ELSE IF status = 409
        THEN /\ last' = [request EXCEPT
                           !.status = 409,
                           !.token = challenges[challengeId].accessToken,
                           !.bodyTxHash = challenges[challengeId].txHash]
             /\ UNCHANGED reqs
        ELSE /\ last' = [request EXCEPT !.status = status]
             /\ UNCHANGED reqs
     /\ UNCHANGED << now, challenges, grants, held, deviceStates, stateFile, proofUses, calc >>

\* the handler from the point where the chain query has returned
X402VerifyFinish_ConsumesOnFailure(r, rpc, second) ==
  LET q == reqs[r]
      record == challenges[q.challengeId]
      paymentCheck == verifySolanaTsePaymentByTx(rpc, q.txHash, record.receiver,
                                                 TSE_MINT, record.amount)
      payload == [type |-> "x402-access",
                  walletAddress |-> q.walletAddress,
                  deviceId |-> q.deviceId,
                  challengeId |-> q.challengeId,
                  txHash |-> q.txHash,
                  iat |-> now,
                  exp |-> second + TOKEN_TTL,
                  sig |-> "none"]
      accessToken == JwtSign(payload)
      request == [NoResponse EXCEPT !.route = "x402verify",
                                    !.deviceId = q.deviceId,
                                    !.challengeId = q.challengeId,
                                    !.txHash = q.txHash,
                                    !.at = now,
                                    !.chain = IF rpc = "throw" THEN "error"
                                              ELSE IF paymentCheck THEN "positive"
                                              ELSE "negative"]
  IN /\ q.pc = "await"
     /\ reqs' = [reqs EXCEPT ![r] = Idle]
     /\ IF ~paymentCheck
        THEN /\ last' = [request EXCEPT !.status = 402]
             /\ challenges' = [challenges EXCEPT ![q.challengeId] =
                  [record EXCEPT !.paid = TRUE, !.txHash = q.txHash]]
             /\ UNCHANGED grants
        ELSE /\ challenges' = [challenges EXCEPT ![q.challengeId] =
                  [record EXCEPT !.paid = TRUE,
                                 !.txHash = q.txHash,
                                 !.accessToken = accessToken]]
             /\ last' = [request EXCEPT !.status = 200,
                                        !.token = accessToken,
                                        !.bodyTxHash = q.txHash,
                                        !.expiresAt = payload.exp * 1000]
             /\ grants' = [grants EXCEPT ![q.challengeId] =
                             IF @ < 2 THEN @ + 1 ELSE 2]
     /\ UNCHANGED << now, held, deviceStates, stateFile, proofUses, calc >>

\* second is what the second Date.now() of the payload returns
X402VerifyFinish(r, rpc, second) ==
  LET q == reqs[r]
      record == challenges[q.challengeId]
      paymentCheck == verifySolanaTsePaymentByTx(rpc, q.txHash, record.receiver,
                                                 TSE_MINT, record.amount)
      payload == [type |-> "x402-access",
                  walletAddress |-> q.walletAddress,
                  deviceId |-> q.deviceId,
                  challengeId |-> q.challengeId,
                  txHash |-> q.txHash,
                  iat |-> now,
                  exp |-> second + TOKEN_TTL,
                  sig |-> "none"]
      accessToken == JwtSign(payload)
      request == [NoResponse EXCEPT !.route = "x402verify",
                                    !.deviceId = q.deviceId,
                                    !.challengeId = q.challengeId,
                                    !.txHash = q.txHash,
                                    !.at = now,
                                    !.chain = IF rpc = "throw" THEN "error"
                                              ELSE IF paymentCheck THEN "positive"
                                              ELSE "negative"]
  IN /\ q.pc = "await"
     /\ reqs' = [reqs EXCEPT ![r] = Idle]
     /\ IF ~paymentCheck
        THEN /\ last' = [request EXCEPT !.status = 402]
             /\ UNCHANGED << challenges, grants >>
        ELSE /\ challenges' = [challenges EXCEPT ![q.challengeId] =
                  [record EXCEPT !.paid = TRUE,
                                 !.txHash = q.txHash,
                                 !.accessToken = accessToken]]
             /\ last' = [request EXCEPT !.status = 200,
                                        !.token = accessToken,
                                        !.bodyTxHash = q.txHash,
                                        !.expiresAt = payload.exp * 1000]
             /\ grants' = [grants EXCEPT ![q.challengeId] =
                             IF @ < 2 THEN @ + 1 ELSE 2]
     /\ UNCHANGED << now, held, deviceStates, stateFile, proofUses, calc >>

\* ------------------------------------------------------------------------
\* Balance-based payment verification
\* ------------------------------------------------------------------------
\* rpc is the outcome of usdcContract.balanceOf: "ok" or "throw".  The
\* comparison parseFloat(balanceUSDC) >= parseFloat(requiredUSDC) of two
\* six-decimal renderings orders them as the integers they render.
verifyBaseUSDCPayment(rpc, balance, amountRequired) ==
  IF rpc = "throw" THEN FALSE ELSE balance >= amountRequired

\* rpc is the outcome of getTokenAccountsByOwner / getParsedAccountInfo;
\* balance < 0 stands for a wallet without a token account
verifySolanaTokenPayment(rpc, balance, amountRequired) ==
  IF rpc = "throw" THEN FALSE
  ELSE IF balance < 0 THEN FALSE
  ELSE balance >= amountRequired

\* ------------------------------------------------------------------------
\* Session tokens
\* ------------------------------------------------------------------------
\* second is what the second Date.now() of the payload returns
generateSessionToken(walletAddress, deviceId, second) ==
  JwtSign([type |-> "lock-session",
           walletAddress |-> walletAddress,
           deviceId |-> deviceId,
           challengeId |-> 0,
           txHash |-> "",
           iat |-> now,
           exp |-> second + TOKEN_TTL,
           sig |-> "none"])

\* decoded is not null
verifySessionToken(token) == JwtVerify(token, now)

\* paymentMethod?.toUpperCase() || 'USDC'
Method(paymentMethod) ==
  IF paymentMethod = "tse" THEN "TSE"
  ELSE IF paymentMethod = "usdc" \/ paymentMethod = "" THEN "USDC"
  ELSE paymentMethod

\* POST /devices/:deviceId/verify, balance-based
SessionVerify(deviceId, walletAddress, paymentMethod, rpc, balance, second) ==
  LET method == Method(paymentMethod)
      paymentCheck ==
        IF method = "TSE"
        THEN verifySolanaTokenPayment(rpc, balance, TSE_COST)
        ELSE verifyBaseUSDCPayment(rpc, balance, USDC_COST)
      request == [NoResponse EXCEPT !.route = "verify",
                                    !.deviceId = deviceId,
                                    !.at = now]
      checked == [request EXCEPT !.chain = IF rpc = "throw" THEN "error"
                                           ELSE IF paymentCheck THEN "positive"
                                           ELSE "negative"]
  IN /\ last' =
          IF ~DeviceFound(deviceId) THEN [request EXCEPT !.status = 404]
          ELSE IF walletAddress = "" THEN [request EXCEPT !.status = 400]
          ELSE IF devices[deviceId].supportsLock
          THEN IF ~paymentCheck THEN [checked EXCEPT !.status = 402]
               ELSE [checked EXCEPT
                       !.status = 200,
                       !.token = generateSessionToken(walletAddress, deviceId, second)]
          ELSE IF devices[deviceId].supportsTimer
          THEN IF ~paymentCheck THEN [checked EXCEPT !.status = 402]
               ELSE [checked EXCEPT !.status = 200]
          ELSE [request EXCEPT !.status = 400]
     /\ UNCHANGED << now, challenges, reqs, grants, held, deviceStates, stateFile, proofUses, calc >>

\* verifyPayment of the testing build: no chain query is made
verifyPayment(walletAddress, deviceId, amountRequired) == TRUE

\* POST /devices/:deviceId/verify of the testing build
SessionVerifyTesting(deviceId, walletAddress, second) ==
  LET paymentCheck == verifyPayment(walletAddress, deviceId, USDC_COST)
      request == [NoResponse EXCEPT !.route = "verify",
                                    !.deviceId = deviceId,
                                    !.at = now]
  IN /\ last' =
          IF ~DeviceFound(deviceId) THEN [request EXCEPT !.status = 404]
          ELSE IF walletAddress = "" THEN [request EXCEPT !.status = 400]
          ELSE IF ~devices[deviceId].supportsLock
          THEN [request EXCEPT !.status = 400]
          ELSE IF ~paymentCheck THEN [request EXCEPT !.status = 402]
          ELSE [request EXCEPT
                  !.status = 200,
                  !.token = generateSessionToken(walletAddress, deviceId, second)]
     /\ UNCHANGED << now, challenges, reqs, grants, held, deviceStates, stateFile, proofUses, calc >>

\* ------------------------------------------------------------------------
\* Device commands behind a session token
\* ------------------------------------------------------------------------
\* POST /devices/:deviceId/unlock and POST /devices/:deviceId/lock
SessionCommand(action, deviceId, auth) ==
  LET status == IF ~DeviceFound(deviceId) THEN 404
                ELSE IF auth.scheme # "bearer" THEN 401
                ELSE IF ~verifySessionToken(auth.token) THEN 401
                ELSE 200
  IN /\ last' = [NoResponse EXCEPT !.route = action,
                                   !.deviceId = deviceId,
                                   !.auth = auth,
                                   !.at = now,
                                   !.status = status]
     /\ UNCHANGED << now, challenges, reqs, grants, held, deviceStates, stateFile, proofUses, calc >>

\* POST /devices/:deviceId/brew
Brew(deviceId, auth) ==
  LET status == IF ~DeviceFound(deviceId) THEN 404 ELSE 200
  IN /\ last' = [NoResponse EXCEPT !.route = "brew",
                                   !.deviceId = deviceId,
                                   !.auth = auth,
                                   !.at = now,
                                   !.status = status]
     /\ UNCHANGED << now, challenges, reqs, grants, held, deviceStates, stateFile, proofUses, calc >>

\* ------------------------------------------------------------------------
\* Device commands behind an X.402 access token
\* ------------------------------------------------------------------------
requireX402_AnyType(auth) ==
  IF auth.scheme # "bearer" THEN 401
  ELSE IF ~JwtVerify(auth.token, now) THEN 401
  ELSE 0

\* the middleware: 0 when it calls next()
requireX402(auth) ==
  IF auth.scheme # "bearer" THEN 401
  ELSE IF ~JwtVerify(auth.token, now) THEN 401
  ELSE IF auth.token.type # "x402-access" THEN 401
  ELSE 0

TokenForDevice_Any(decoded, deviceId) == TRUE

\* req.x402.deviceId === deviceId
TokenForDevice(decoded, deviceId) == decoded.deviceId = deviceId

\* POST /x402/:deviceId/unlock and POST /x402/:deviceId/lock
X402Command(action, deviceId, auth) ==
  LET status == IF requireX402(auth) # 0 THEN requireX402(auth)
                ELSE IF ~TokenForDevice(auth.token, deviceId) THEN 403
                ELSE 200
  IN /\ last' = [NoResponse EXCEPT !.route = action,
                                   !.deviceId = deviceId,
                                   !.auth = auth,
                                   !.at = now,
                                   !.status = status]
     /\ UNCHANGED << now, challenges, reqs, grants, held, deviceStates, stateFile, proofUses, calc >>

\* ------------------------------------------------------------------------
\* Device records and the wall clock
\* ------------------------------------------------------------------------
\* Date.now() when the service starts, in milliseconds since the epoch
\* (scaled: one hour)
StartMs == 3600000

\* Date.now(), in milliseconds
NowMs == StartMs + now * 1000

NewDevice == [state |-> "locked", unlockUntil |-> 0]

\* the value of a property the object does not have
Undefined == -1

\* NaN: what Number() gives for a string that is not a number, and every
\* sum with it; as minutes it stands for such a string in the request body.
\* Every comparison of NaN with > is false, as it is for this value
NaN == -2

\* what devices[id] evaluates to for an inherited key: the inherited object,
\* which has neither state nor unlockUntil
Inherited == [state |-> "undefined", unlockUntil |-> Undefined]

\* the record the table holds for the id, NoRecord when it holds none
Found(id) == IF id \in DOMAIN deviceStates THEN deviceStates[id] ELSE NoRecord

\* ------------------------------------------------------------------------
\* The development build of the unlock service
\* ------------------------------------------------------------------------
\* setUnlocked(deviceId, minutes), times in milliseconds
setUnlockedDev(deviceId, minutes) ==
  [d \in (DOMAIN deviceStates) \cup {deviceId} |->
     IF d = deviceId
     THEN [state |-> "unlocked", unlockUntil |-> NowMs + minutes * 60 * 1000]
     ELSE deviceStates[d]]

\* POST /api/unlock-confirm of the development build: no chain query is made
DevUnlockConfirm(deviceId, minutes, txHash) ==
  LET request == [NoResponse EXCEPT !.route = "unlock-confirm",
                                    !.deviceId = deviceId,
                                    !.at = now]
  IN IF deviceId = "" \/ minutes = 0 \/ txHash = ""
     THEN /\ last' = [request EXCEPT !.status = 400]
          /\ UNCHANGED << now, challenges, reqs, grants, held, deviceStates, stateFile, proofUses, calc >>
     ELSE /\ deviceStates' = setUnlockedDev(deviceId, minutes)
          /\ last' = [request EXCEPT !.status = 200,
                                     !.unlockUntil = setUnlockedDev(deviceId, minutes)[deviceId].unlockUntil,
                                     !.prior = Found(deviceId)]
          /\ UNCHANGED << now, challenges, reqs, grants, held, stateFile, proofUses, calc >>

\* the device table after getDeviceState(deviceId) of the development build
getDeviceState(deviceId) ==
  LET created == [d \in (DOMAIN deviceStates) \cup {deviceId} |->
                    IF d \in DOMAIN deviceStates THEN deviceStates[d]
                    ELSE IF d \in PrototypeKeys THEN Inherited
                    ELSE NewDevice]
      unlockUntil == created[deviceId].unlockUntil
      relock == unlockUntil # 0 /\ unlockUntil # Undefined /\ unlockUntil < NowMs
  IN IF relock
     THEN [created EXCEPT ![deviceId] = [state |-> "locked", unlockUntil |-> 0]]
     ELSE created

\* GET /api/devices/:id/state of the development build
DevDeviceState(id) ==
  LET d == getDeviceState(id)[id]
  IN /\ deviceStates' = getDeviceState(id)
     /\ last' = [NoResponse EXCEPT !.route = "dev-state",
                                   !.deviceId = id,
                                   !.at = now,
                                   !.status = 200,
                                   !.state = d.state,
                                   !.unlockUntil = IF d.unlockUntil = Undefined THEN 0
                                                   ELSE d.unlockUntil,
                                   !.prior = Found(id)]
     /\ UNCHANGED << now, challenges, reqs, grants, held, stateFile, proofUses, calc >>

\* ------------------------------------------------------------------------
\* The unlock service with on-chain USDC verification (server.js)
\* ------------------------------------------------------------------------
Thrown_Never(rpc) == FALSE

\* the awaited axios.post rejects and control passes to the catch block
Thrown(rpc) == rpc = "throw"

\* the device table after getDevice(id): !devices[id] is false for an
\* inherited key, so no entry is created for it and the inherited object
\* is what the callers read and write
getDevice(id) ==
  [d \in (DOMAIN deviceStates) \cup {id} |->
     IF d \in DOMAIN deviceStates THEN deviceStates[d]
     ELSE IF d \in PrototypeKeys THEN Inherited
     ELSE NewDevice]

setLocked_KeepWindow(deviceId) ==
  [getDevice(deviceId) EXCEPT ![deviceId] = [@ EXCEPT !.state = "locked"]]

setLocked(deviceId) ==
  [getDevice(deviceId) EXCEPT ![deviceId] = [state |-> "locked", unlockUntil |-> 0]]

\* d.unlockUntil = now + Number(minutes) * 60 * 1000
UnlockUntil(minutes) ==
  IF minutes = NaN THEN NaN ELSE NowMs + minutes * 60 * 1000

\* new Date(unlockUntil).toISOString() throws a RangeError
InvalidDate(unlockUntil) == unlockUntil = NaN

setUnlocked_Stacking(deviceId, minutes) ==
  [getDevice(deviceId) EXCEPT ![deviceId] =
     [state |-> "unlocked",
      unlockUntil |-> (IF @.state = "unlocked" /\ @.unlockUntil > NowMs
                       THEN @.unlockUntil ELSE NowMs) + minutes * 60 * 1000]]

\* the table once setUnlocked has assigned d.state and d.unlockUntil, which
\* it does before it formats the date for the log
setUnlocked(deviceId, minutes) ==
  [getDevice(deviceId) EXCEPT ![deviceId] =
     [state |-> "unlocked", unlockUntil |-> UnlockUntil(minutes)]]

\* a decimal string: its integer part and the digits after the point
Decimal(whole, frac) == [whole |-> whole, frac |-> frac]

\* m = Number(minutes) || 0; minutes is a whole number or NaN here, so
\* the branch 0 < m < 1 is not taken
calculatePriceUSDC(minutes) ==
  LET m == IF minutes = NaN THEN 0 ELSE minutes
  IN IF m <= 15 THEN Decimal(0, << 1, 0 >>)
     ELSE IF m <= 30 THEN Decimal(0, << 2, 0 >>)
     ELSE IF m <= 60 THEN Decimal(0, << 3, 0 >>)
     ELSE Decimal(1, << 0, 0 >>)

RECURSIVE DigitsValue(_, _)
\* BigInt of the first n digits
DigitsValue(digits, n) ==
  IF n = 0 THEN 0 ELSE 10 * DigitsValue(digits, n - 1) + digits[n]

\* (fracRaw + "000000").slice(0, 6), then whole * 1000000n + frac
usdcToUnits_Rounded(amountStr) ==
  LET frac == [i \in 1..6 |-> IF i <= Len(amountStr.frac)
                              THEN amountStr.frac[i] ELSE 0]
      up == IF Len(amountStr.frac) > 6 /\ amountStr.frac[7] >= 5 THEN 1 ELSE 0
  IN amountStr.whole * 1000000 + DigitsValue(frac, 6) + up

usdcToUnits(amountStr) ==
  LET frac == [i \in 1..6 |-> IF i <= Len(amountStr.frac)
                              THEN amountStr.frac[i] ELSE 0]
  IN amountStr.whole * 1000000 + DigitsValue(frac, 6)

Qualifies_AnyRecipient(log, contract, receiver) ==
  /\ toLowerCase(log.address) = contract
  /\ Len(log.topics) > 0
  /\ toLowerCase(log.topics[1]) = TRANSFER_TOPIC
  /\ Len(log.topics) >= 3
  /\ log.data # NoData

\* the log passes the three filters of the loop and reaches BigInt(log.data)
Qualifies(log, contract, receiver) ==
  /\ toLowerCase(log.address) = contract
  /\ Len(log.topics) > 0
  /\ toLowerCase(log.topics[1]) = TRANSFER_TOPIC
  /\ Len(log.topics) >= 3
  /\ toLowerCase(TopicAddress(log.topics[3])) = receiver
  /\ log.data # NoData

RECURSIVE PaidUnits(_, _)
\* paidUnits after the loop has gone through logs[i..]
PaidUnits(logs, i) ==
  IF i > Len(logs) THEN 0
  ELSE (IF Qualifies(logs[i], BASE_USDC_CONTRACT, BASE_USDC_RECEIVER)
        THEN logs[i].data ELSE 0)
       + PaidUnits(logs, i + 1)

\* BigInt(log.data) throws a SyntaxError
ScanThrows(logs) ==
  \E i \in 1..Len(logs) :
    /\ Qualifies(logs[i], BASE_USDC_CONTRACT, BASE_USDC_RECEIVER)
    /\ logs[i].data = BadData

\* POST /api/unlock-confirm up to the point where it suspends on the RPC
UnlockConfirmStart(r, deviceId, minutes, txHash) ==
  LET request == [NoResponse EXCEPT !.route = "api-unlock-confirm",
                                    !.deviceId = deviceId,
                                    !.at = now]
  IN /\ reqs[r].pc = "idle"
     /\ \A q \in 1..(r - 1) : reqs[q].pc # "idle"
     /\ IF deviceId = "" \/ minutes = 0 \/ txHash = ""
        THEN /\ last' = [request EXCEPT !.status = 400]
             /\ UNCHANGED reqs
        ELSE /\ reqs' = [reqs EXCEPT ![r] =
                  [pc |-> "receipt", deviceId |-> deviceId, walletAddress |-> "",
                   challengeId |-> 0, txHash |-> txHash, minutes |-> minutes]]
             /\ UNCHANGED last
     /\ UNCHANGED << now, challenges, grants, held, deviceStates, stateFile, proofUses, calc >>

PaymentTooSmall_OrEqual(paidUnits, requiredUnits) == paidUnits <= requiredUnits

\* paidUnits < requiredUnits
PaymentTooSmall(paidUnits, requiredUnits) == paidUnits < requiredUnits

\* the verification of POST /api/unlock-confirm once the RPC has returned;
\* rpc is the outcome of axios.post: "ok" or "throw". 200 stands for
\* reaching the call of setUnlocked
PaymentStatus(rpc, minutes, txHash) ==
  LET receipt == Receipt(txHash)
      requiredUnits == usdcToUnits(calculatePriceUSDC(minutes))
  IN IF Thrown(rpc) THEN 500
     ELSE IF ~receipt.found THEN 400
     ELSE IF receipt.status # "0x1" THEN 400
     ELSE IF ScanThrows(receipt.logs) THEN 500
     ELSE IF PaymentTooSmall(PaidUnits(receipt.logs, 1), requiredUnits) THEN 400
     ELSE 200

\* the status POST /api/unlock-confirm answers: when setUnlocked throws
\* while it logs the date, the catch block answers 500
UnlockConfirmStatus(rpc, minutes, txHash) ==
  IF PaymentStatus(rpc, minutes, txHash) = 200 /\ InvalidDate(UnlockUntil(minutes))
  THEN 500
  ELSE PaymentStatus(rpc, minutes, txHash)

\* POST /api/unlock-confirm from the point where the RPC has returned
UnlockConfirmFinish(r, rpc) ==
  LET q == reqs[r]
      status == UnlockConfirmStatus(rpc, q.minutes, q.txHash)
      payment == PaymentStatus(rpc, q.minutes, q.txHash)
      request == [NoResponse EXCEPT !.route = "api-unlock-confirm",
                                    !.deviceId = q.deviceId,
                                    !.txHash = q.txHash,
                                    !.at = now,
                                    !.status = status,
                                    !.chain = IF payment = 500 THEN "error"
                                              ELSE IF payment = 200 THEN "positive"
                                              ELSE "negative"]
      unlocked == [request EXCEPT
                     !.unlockUntil = setUnlocked(q.deviceId, q.minutes)[q.deviceId].unlockUntil,
                     !.prior = Found(q.deviceId)]
  IN /\ q.pc = "receipt"
     /\ reqs' = [reqs EXCEPT ![r] = Idle]
     /\ last' = IF status = 200 THEN unlocked ELSE request
     /\ IF payment = 200
        THEN /\ deviceStates' = setUnlocked(q.deviceId, q.minutes)
             /\ proofUses' =
                  [t \in (DOMAIN proofUses) \cup {q.txHash} |->
                     IF t \notin DOMAIN proofUses THEN 1
                     ELSE IF t = q.txHash /\ proofUses[t] < 2 THEN proofUses[t] + 1
                     ELSE proofUses[t]]
        ELSE UNCHANGED << deviceStates, proofUses >>
     /\ UNCHANGED << now, challenges, grants, held, stateFile, calc >>

remainingMs_UntilEpoch(d) ==
  IF d.state = "unlocked" /\ d.unlockUntil > NowMs THEN d.unlockUntil ELSE 0

\* the remainingMs of the response, computed after the relock
remainingMs(d) ==
  IF d.state = "unlocked" /\ d.unlockUntil > NowMs THEN d.unlockUntil - NowMs ELSE 0

\* GET /api/devices/:id/state
DeviceState(id) ==
  LET d == getDevice(id)[id]
      relock == d.state = "unlocked" /\ d.unlockUntil > 0 /\ NowMs > d.unlockUntil
      after == IF relock THEN setLocked(id) ELSE getDevice(id)
  IN /\ deviceStates' = after
     /\ last' = [NoResponse EXCEPT !.route = "api-state",
                                   !.deviceId = id,
                                   !.at = now,
                                   !.status = 200,
                                   !.state = after[id].state,
                                   !.unlockUntil = after[id].unlockUntil,
                                   !.remainingMs = remainingMs(after[id]),
                                   !.prior = Found(id)]
     /\ UNCHANGED << now, challenges, reqs, grants, held, stateFile, proofUses, calc >>

\* POST /api/devices/:id/lock
DeviceLock(id) ==
  /\ deviceStates' = setLocked(id)
  /\ last' = [NoResponse EXCEPT !.route = "api-lock",
                                !.deviceId = id,
                                !.at = now,
                                !.status = 200,
                                !.unlockUntil = setLocked(id)[id].unlockUntil,
                                !.prior = Found(id)]
  /\ UNCHANGED << now, challenges, reqs, grants, held, stateFile, proofUses, calc >>

\* ------------------------------------------------------------------------
\* The file-backed unlock service (routes/payment.js, verifyBasePayment.js)
\* ------------------------------------------------------------------------
priceFor(minutes) ==
  IF minutes = 15 THEN Decimal(1, << 0, 0 >>)
  ELSE IF minutes = 30 THEN Decimal(1, << 5, 0 >>)
  ELSE IF minutes = 60 THEN Decimal(2, << 5, 0 >>)
  ELSE Decimal(5, << 0, 0 >>)

\* parseFloat of a price string, counted in millionths.  The prices have two
\* decimals and the amounts are below 2^53, so amount / 1e6 >= parseFloat(s)
\* orders the two doubles as the integers amount and 1e6 * s
parseFloat(amountStr) ==
  LET frac == [i \in 1..6 |-> IF i <= Len(amountStr.frac)
                              THEN amountStr.frac[i] ELSE 0]
  IN amountStr.whole * 1000000 + DigitsValue(frac, 6)

\* rpc is the outcome of axios.post: "ok" or "throw"; every exception is
\* caught and answered false
verifyBasePayment(rpc, txHash, expectedAmount) ==
  LET receipt == Receipt(txHash)
      transferLog == receipt.logs[1]
  IN IF Thrown(rpc) THEN FALSE
     ELSE IF ~receipt.found THEN FALSE
     ELSE IF toLowerCase(receipt.to) # USDC_ADDRESS THEN FALSE
     ELSE IF Len(receipt.logs) = 0 THEN FALSE
     \* topics[2] is undefined: substring throws
     ELSE IF Len(transferLog.topics) < 3 THEN FALSE
     ELSE IF toLowerCase(TopicAddress(transferLog.topics[3])) # RECEIVER THEN FALSE
     \* parseInt gives NaN, and NaN >= x is false
     ELSE IF transferLog.data \in {NoData, BadData} THEN FALSE
     ELSE transferLog.data >= parseFloat(expectedAmount)

\* POST /unlock-confirm up to the point where it suspends on verifyBasePayment
PayUnlockConfirmStart(r, deviceId, minutes, txHash) ==
  /\ reqs[r].pc = "idle"
  /\ \A q \in 1..(r - 1) : reqs[q].pc # "idle"
  /\ reqs' = [reqs EXCEPT ![r] =
       [pc |-> "basePayment", deviceId |-> deviceId, walletAddress |-> "",
        challengeId |-> 0, txHash |-> txHash, minutes |-> minutes]]
  /\ UNCHANGED << now, challenges, last, grants, held, deviceStates, stateFile, proofUses, calc >>

\* POST /unlock-confirm from the point where verifyBasePayment has returned
PayUnlockConfirmFinish_Overwrite(r, rpc) ==
  LET q == reqs[r]
      isPaid == verifyBasePayment(rpc, q.txHash, priceFor(q.minutes))
      unlockUntil == NowMs + q.minutes * 60 * 1000
      request == [NoResponse EXCEPT !.route = "pay-unlock-confirm",
                                    !.deviceId = q.deviceId,
                                    !.txHash = q.txHash,
                                    !.at = now,
                                    !.chain = IF rpc = "throw" THEN "error"
                                              ELSE IF isPaid THEN "positive"
                                              ELSE "negative"]
  IN /\ q.pc = "basePayment"
     /\ reqs' = [reqs EXCEPT ![r] = Idle]
     /\ IF ~isPaid
        THEN /\ last' = [request EXCEPT !.status = 400]
             /\ UNCHANGED stateFile
        ELSE /\ stateFile' =
                  [d \in {q.deviceId} |->
                     IF d = q.deviceId
                     THEN [state |-> "unlocked", unlockUntil |-> unlockUntil]
                     ELSE stateFile[d]]
             /\ last' = [request EXCEPT !.status = 200, !.unlockUntil = unlockUntil]
     /\ UNCHANGED << now, challenges, grants, held, deviceStates, proofUses, calc >>

PayUnlockConfirmFinish(r, rpc) ==
  LET q == reqs[r]
      isPaid == verifyBasePayment(rpc, q.txHash, priceFor(q.minutes))
      unlockUntil == NowMs + q.minutes * 60 * 1000
      request == [NoResponse EXCEPT !.route = "pay-unlock-confirm",
                                    !.deviceId = q.deviceId,
                                    !.txHash = q.txHash,
                                    !.at = now,
                                    !.chain = IF rpc = "throw" THEN "error"
                                              ELSE IF isPaid THEN "positive"
                                              ELSE "negative"]
  IN /\ q.pc = "basePayment"
     /\ reqs' = [reqs EXCEPT ![r] = Idle]
     /\ IF ~isPaid
        THEN /\ last' = [request EXCEPT !.status = 400]
             /\ UNCHANGED stateFile
        ELSE /\ stateFile' =
                  [d \in (DOMAIN stateFile) \cup {q.deviceId} |->
                     IF d = q.deviceId
                     THEN [state |-> "unlocked", unlockUntil |-> unlockUntil]
                     ELSE stateFile[d]]
             /\ last' = [request EXCEPT !.status = 200, !.unlockUntil = unlockUntil]
     /\ UNCHANGED << now, challenges, grants, held, deviceStates, proofUses, calc >>

\* GET /devices/:id/state of the file-backed service: the stored record is
\* sent as it is
FileDeviceState(id) ==
  LET d == IF id \in DOMAIN stateFile THEN stateFile[id] ELSE NewDevice
  IN /\ last' = [NoResponse EXCEPT !.route = "pay-state",
                                   !.deviceId = id,
                                   !.at = now,
                                   !.status = 200,
                                   !.state = d.state,
                                   !.unlockUntil = d.unlockUntil]
     /\ UNCHANGED << now, challenges, reqs, grants, held, deviceStates, stateFile, proofUses, calc >>

\* ------------------------------------------------------------------------
\* The client
\* ------------------------------------------------------------------------
\* the client keeps the token of the response it has just received
ClientAdopt ==
  /\ last.token # NoToken
  /\ held' = last.token
  /\ UNCHANGED << now, challenges, reqs, last, grants, deviceStates, stateFile, proofUses, calc >>

\* a token whose payload was altered after it was signed
Tampered(token) ==
  {[token EXCEPT !.deviceId = IF @ = "X402-LOCK-001" THEN "X402-COFFEE-001"
                              ELSE "X402-LOCK-001",
                 !.sig = "bad"],
   [token EXCEPT !.exp = @ + TOKEN_TTL, !.sig = "bad"]}

\* the Authorization headers the client can send
AuthInputs ==
  {NoAuth, [scheme |-> "basic", token |-> held],
   [scheme |-> "bearer", token |-> held]}
  \cup {[scheme |-> "bearer", token |-> t] : t \in Tampered(held)}

\* ------------------------------------------------------------------------
\* The clock
\* ------------------------------------------------------------------------
Tick(step, limit) ==
  /\ now < limit
  /\ now' = now + step
  /\ UNCHANGED << challenges, reqs, last, grants, held, deviceStates, stateFile, proofUses, calc >>

\* ------------------------------------------------------------------------
\* Specification of the X.402 payment flow, requests running concurrently
\* ------------------------------------------------------------------------
DoX402Challenge(limit) ==
  \E deviceId \in DeviceInputs, walletAddress \in ChallengeWalletInputs :
    /\ Len(challenges) < limit
    /\ X402Challenge(deviceId, walletAddress)

DoX402VerifyStart(wallets, txs) ==
  \E r \in 1..MaxReq, deviceId \in DeviceInputs, walletAddress \in wallets,
     challengeId \in ChallengeInputs, txHash \in txs :
    X402VerifyStart(r, deviceId, walletAddress, challengeId, txHash)

RaceVerifyStart == DoX402VerifyStart(WalletInputs, TxInputs)

\* both reads of the clock of an issuance fall in the same second
DoX402VerifyFinish ==
  \E r \in 1..MaxReq, rpc \in {"ok", "throw"} : X402VerifyFinish(r, rpc, now)

DoTick == Tick(TickStep, MaxNow)

RaceChallenge == DoX402Challenge(MaxRaceChallenges)

Next ==
  \/ RaceChallenge
  \/ RaceVerifyStart
  \/ DoX402VerifyFinish
  \/ DoTick

Spec == Init /\ [][Next]_vars

\* ------------------------------------------------------------------------
\* Specification of the X.402 payment flow, requests handled one after
\* another: no handler starts while a verification is suspended
\* ------------------------------------------------------------------------
NoneSuspended == \A r \in 1..MaxReq : reqs[r].pc = "idle"

SeqChallenge == NoneSuspended /\ DoX402Challenge(MaxChallenges)

SeqVerifyStart == NoneSuspended /\ DoX402VerifyStart(WalletInputs, TxInputs)

SeqNext ==
  \/ SeqChallenge
  \/ SeqVerifyStart
  \/ DoX402VerifyFinish
  \/ DoTick

SpecSeq == Init /\ [][SeqNext]_vars

\* ------------------------------------------------------------------------
\* Specification of the credentials and the commands they gate
\* ------------------------------------------------------------------------
\* the answers of the balance query: it throws, or it returns a balance
BalanceQueries ==
  {<< "throw", 0 >>}
  \cup {<< "ok", balance >> : balance \in {-1, TSE_COST, USDC_COST - 1, USDC_COST}}

CmdChallenge == NoneSuspended /\ DoX402Challenge(MaxCmdChallenges)

CmdVerifyStart ==
  NoneSuspended /\ DoX402VerifyStart(ChallengeWalletInputs, {"txPay", "txLow"})

DoSessionVerify ==
  \E deviceId \in DeviceInputs, walletAddress \in ChallengeWalletInputs,
     paymentMethod \in PaymentMethodInputs, query \in BalanceQueries :
    SessionVerify(deviceId, walletAddress, paymentMethod, query[1], query[2], now)

DoSessionVerifyTesting ==
  \E deviceId \in DeviceInputs, walletAddress \in ChallengeWalletInputs :
    SessionVerifyTesting(deviceId, walletAddress, now)

DoSessionCommand ==
  \E action \in {"unlock", "lock"}, deviceId \in DeviceInputs,
     auth \in AuthInputs :
    SessionCommand(action, deviceId, auth)

DoBrew == \E deviceId \in DeviceInputs, auth \in AuthInputs : Brew(deviceId, auth)

DoX402Command ==
  \E action \in {"x402unlock", "x402lock"}, deviceId \in DeviceInputs,
     auth \in AuthInputs :
    X402Command(action, deviceId, auth)

CmdTick == Tick(CmdTickStep, MaxCmdNow)

CmdNext ==
  \/ CmdChallenge
  \/ CmdVerifyStart
  \/ DoX402VerifyFinish
  \/ DoSessionVerify
  \/ DoSessionVerifyTesting
  \/ DoSessionCommand
  \/ DoBrew
  \/ DoX402Command
  \/ ClientAdopt
  \/ CmdTick

SpecCmd == Init /\ [][CmdNext]_vars

\* ------------------------------------------------------------------------
\* Specification of the routes that grant access
\* ------------------------------------------------------------------------
MinutesInputs == {0, 15}
UnlockDeviceInputs == {"", "bike-1", "bike-2"}

DoDevUnlockConfirm ==
  \E deviceId \in UnlockDeviceInputs, minutes \in MinutesInputs,
     txHash \in TxInputs :
    DevUnlockConfirm(deviceId, minutes, txHash)

GrantNext ==
  \/ DoSessionVerify
  \/ DoSessionVerifyTesting
  \/ DoDevUnlockConfirm
  \/ CmdTick

SpecGrant == Init /\ [][GrantNext]_vars

\* ------------------------------------------------------------------------
\* Specification of the unlock service with on-chain USDC verification
\* ------------------------------------------------------------------------
\* the empty string stands for a body without txHash, "txNone" for a hash
\* the node does not know
ReceiptInputs ==
  {"", "txExact", "txShort", "txSplit", "txMixed", "txFailed", "txBadData",
   "txNone"}

\* the device table of server.js starts with bike-1, locked
InitEvm ==
  /\ now = 0
  /\ challenges = << >>
  /\ reqs = [r \in 1..MaxReq |-> Idle]
  /\ last = NoResponse
  /\ grants = [c \in 1..MaxChallenges |-> 0]
  /\ held = NoToken
  /\ deviceStates = [d \in {"bike-1"} |-> NewDevice]
  /\ stateFile = << >>
  /\ proofUses = << >>
  /\ calc = NoCalc

DoUnlockConfirmStart ==
  \E r \in 1..MaxReq, deviceId \in UnlockDeviceInputs, minutes \in MinutesInputs,
     txHash \in ReceiptInputs :
    /\ NoneSuspended
    /\ UnlockConfirmStart(r, deviceId, minutes, txHash)

DoUnlockConfirmFinish ==
  \E r \in 1..MaxReq, rpc \in {"ok", "throw"} : UnlockConfirmFinish(r, rpc)

DoDeviceState == \E id \in {"bike-1", "bike-2"} : DeviceState(id)

DoDeviceLock == \E id \in {"bike-1", "bike-2"} : DeviceLock(id)

EvmNext ==
  \/ DoUnlockConfirmStart
  \/ DoUnlockConfirmFinish
  \/ DoDeviceState
  \/ DoDeviceLock
  \/ CmdTick

SpecEvm == InitEvm /\ [][EvmNext]_vars

\* The same service under the scheduling the runtime gives it: the clock
\* advances and the routes that make no outbound call keep being served.
\* Nothing obliges the RPC node to answer, and the code sets no timer on the
\* call, so DoUnlockConfirmFinish carries no fairness.
SpecLive ==
  /\ InitEvm
  /\ [][EvmNext]_vars
  /\ WF_vars(CmdTick)
  /\ WF_vars(DoDeviceState)
  /\ WF_vars(DoDeviceLock)

\* ------------------------------------------------------------------------
\* Specification of the three transaction-based verifications: the X.402
\* verify route (part_001), POST /api/unlock-confirm (server.js) and
\* POST /unlock-confirm (routes/payment.js)
\* ------------------------------------------------------------------------
\* "txNone" is a hash the node does not know
ProofTxInputs ==
  {"txPay", "txLow", "txErr", "txNoMeta", "txOther", "txShift", "txMalformed",
   "txNone"}

PayReceiptInputs ==
  {"payExact", "payShort", "paySecond", "payApproval", "payFailed",
   "payNoTopics", "txNone"}

\* the three routes belong to three programs, each deployed on its own: the
\* program that has answered a request is the one that is running
Deployed(routes) == last.route \in routes \cup {"none"}

ProofChallenge == Deployed({"x402challenge", "x402verify"}) /\ CmdChallenge

ProofVerifyStart ==
  /\ Deployed({"x402challenge", "x402verify"})
  /\ NoneSuspended
  /\ DoX402VerifyStart({"walletA"}, ProofTxInputs)

ProofUnlockConfirmStart == Deployed({"api-unlock-confirm"}) /\ DoUnlockConfirmStart

DoPayUnlockConfirmStart ==
  \E r \in 1..MaxReq, deviceId \in {"bike-1", "bike-2"}, txHash \in PayReceiptInputs :
    /\ Deployed({"pay-unlock-confirm"})
    /\ NoneSuspended
    /\ PayUnlockConfirmStart(r, deviceId, 15, txHash)

DoPayUnlockConfirmFinish ==
  \E r \in 1..MaxReq, rpc \in {"ok", "throw"} : PayUnlockConfirmFinish(r, rpc)

ProofNext ==
  \/ ProofChallenge
  \/ ProofVerifyStart
  \/ DoX402VerifyFinish
  \/ ProofUnlockConfirmStart
  \/ DoUnlockConfirmFinish
  \/ DoPayUnlockConfirmStart
  \/ DoPayUnlockConfirmFinish
  \/ CmdTick

SpecProof == InitEvm /\ [][ProofNext]_vars

\* ------------------------------------------------------------------------
\* Specification of the device state machine: the device table of server.js
\* and the one of the development build (part_000), each deployed on its own
\* ------------------------------------------------------------------------
\* 15 minutes end on a tick of the clock, 5 minutes between two ticks
WindowMinutesInputs == {5, 15}

DeviceIdInputs == {"bike-1", "bike-2", "constructor"}

ServerRoutes == {"api-unlock-confirm", "api-state", "api-lock"}

DevRoutes == {"unlock-confirm", "dev-state"}

\* server.js is the program running: its table has held bike-1 from the start
ServerJs == Deployed(ServerRoutes) /\ "bike-1" \in DOMAIN deviceStates

\* the development build is the program running: its table starts empty and
\* none of its handlers suspends
DevBuild ==
  /\ Deployed(DevRoutes)
  /\ NoneSuspended
  /\ last.route = "none" => deviceStates = << >>

InitDevice ==
  /\ now = 0
  /\ challenges = << >>
  /\ reqs = [r \in 1..MaxReq |-> Idle]
  /\ last = NoResponse
  /\ grants = [c \in 1..MaxChallenges |-> 0]
  /\ held = NoToken
  /\ deviceStates \in {<< >>, [d \in {"bike-1"} |-> NewDevice]}
  /\ stateFile = << >>
  /\ proofUses = << >>
  /\ calc = NoCalc

TableUnlockConfirmStart ==
  \E r \in 1..MaxReq, deviceId \in DeviceIdInputs, minutes \in WindowMinutesInputs,
     txHash \in {"txExact", "txShort"} :
    /\ ServerJs
    /\ NoneSuspended
    /\ UnlockConfirmStart(r, deviceId, minutes, txHash)

TableUnlockConfirmFinish == \E r \in 1..MaxReq : UnlockConfirmFinish(r, "ok")

TableDeviceState == \E id \in DeviceIdInputs : ServerJs /\ DeviceState(id)

TableDeviceLock == \E id \in DeviceIdInputs : ServerJs /\ DeviceLock(id)

TableDevUnlockConfirm ==
  \E deviceId \in DeviceIdInputs, minutes \in WindowMinutesInputs :
    DevBuild /\ DevUnlockConfirm(deviceId, minutes, "txExact")

TableDevDeviceState == \E id \in DeviceIdInputs : DevBuild /\ DevDeviceState(id)

DevTick == Tick(DevTickStep, MaxDevNow)

DeviceNext ==
  \/ TableUnlockConfirmStart
  \/ TableUnlockConfirmFinish
  \/ TableDeviceState
  \/ TableDeviceLock
  \/ TableDevUnlockConfirm
  \/ TableDevDeviceState
  \/ DevTick

SpecDevice == InitDevice /\ [][DeviceNext]_vars

\* ------------------------------------------------------------------------
\* Specification of the file-backed unlock service: POST /unlock-confirm
\* (routes/payment.js) and GET /devices/:id/state (routes/device.js)
\* ------------------------------------------------------------------------
FileUnlockConfirmStart ==
  \E r \in 1..MaxReq, deviceId \in {"bike-1", "bike-2"},
     txHash \in {"payExact", "payShort"} :
    /\ NoneSuspended
    /\ PayUnlockConfirmStart(r, deviceId, 15, txHash)

DoFileDeviceState == \E id \in {"bike-1", "bike-2"} : FileDeviceState(id)

FileNext ==
  \/ FileUnlockConfirmStart
  \/ DoPayUnlockConfirmFinish
  \/ DoFileDeviceState
  \/ DevTick

SpecFile == Init /\ [][FileNext]_vars

\* ------------------------------------------------------------------------
\* Specification of one unlock window of server.js under the scheduling the
\* claim about it assumes: the clock advances and every device keeps being
\* read
\* ------------------------------------------------------------------------
\* -61 minutes stands for a negative duration longer than the time since the
\* epoch (StartMs is one hour), -60 minutes for the negative duration that is
\* exactly the time since the epoch when the request is served at StartMs
OneWindowMinutesInputs == {15, -60, -61}

\* a window of a positive duration closes before the clock of the model stops
ClosesInTime(minutes) == NowMs + minutes * 60 * 1000 < StartMs + MaxDevNow * 1000

\* one accepted unlock per behaviour: no further unlock follows it
WindowUnlockConfirmStart ==
  \E r \in 1..MaxReq, deviceId \in {"bike-1", "bike-2"},
     minutes \in OneWindowMinutesInputs :
    /\ NoneSuspended
    /\ proofUses = << >>
    /\ UnlockConfirmStart(r, deviceId, minutes, "txExact")

WindowUnlockConfirmFinish ==
  \E r \in 1..MaxReq, rpc \in {"ok", "throw"} :
    /\ ClosesInTime(reqs[r].minutes)
    /\ UnlockConfirmFinish(r, rpc)

WindowNext ==
  \/ WindowUnlockConfirmStart
  \/ WindowUnlockConfirmFinish
  \/ DoDeviceState
  \/ DoDeviceLock
  \/ DevTick

SpecWindow ==
  /\ InitEvm
  /\ [][WindowNext]_vars
  /\ WF_vars(DevTick)
  /\ \A id \in {"bike-1", "bike-2"} : WF_vars(DeviceState(id))

\* ------------------------------------------------------------------------
\* Specification of the issuance of credentials (part_001): each payload
\* reads the clock twice, once for iat and once for exp
\* ------------------------------------------------------------------------
\* what the second Date.now() can return, in seconds: the second of the first
\* read or the one after it
ClockReads == {now, now + 1}

TokenChallenge == NoneSuspended /\ DoX402Challenge(MaxCmdChallenges)

TokenVerifyStart ==
  NoneSuspended /\ DoX402VerifyStart(WalletInputs, TxInputs)

TokenVerifyFinish ==
  \E r \in 1..MaxReq, second \in ClockReads : X402VerifyFinish(r, "ok", second)

TokenSessionVerify ==
  \E deviceId \in DeviceInputs, walletAddress \in ChallengeWalletInputs,
     second \in ClockReads :
    SessionVerify(deviceId, walletAddress, "usdc", "ok", USDC_COST, second)

TokenNext ==
  \/ TokenChallenge
  \/ TokenVerifyStart
  \/ TokenVerifyFinish
  \/ TokenSessionVerify
  \/ CmdTick

SpecToken == Init /\ [][TokenNext]_vars

\* ------------------------------------------------------------------------
\* Specification of the X.402 routes (part_001) with device ids in and out
\* of the catalog
\* ------------------------------------------------------------------------
CatalogInputs == {"X402-LOCK-001", "X402-UNKNOWN", "constructor"}

CatalogChallenge ==
  \E deviceId \in CatalogInputs, walletAddress \in ChallengeWalletInputs :
    /\ NoneSuspended
    /\ Len(challenges) < MaxCmdChallenges
    /\ X402Challenge(deviceId, walletAddress)

CatalogVerifyStart ==
  \E r \in 1..MaxReq, deviceId \in CatalogInputs, challengeId \in ChallengeInputs,
     txHash \in {"txPay", "txLow"} :
    /\ NoneSuspended
    /\ X402VerifyStart(r, deviceId, "walletA", challengeId, txHash)

CatalogCommand ==
  \E action \in {"x402unlock", "x402lock"}, deviceId \in CatalogInputs, auth \in AuthInputs :
    X402Command(action, deviceId, auth)

CatalogNext ==
  \/ CatalogChallenge
  \/ CatalogVerifyStart
  \/ DoX402VerifyFinish
  \/ CatalogCommand
  \/ ClientAdopt
  \/ CmdTick

SpecCatalog == Init /\ [][CatalogNext]_vars

\* ------------------------------------------------------------------------
\* Specification of the writes to the device table of server.js: requests
\* that fail in each way, requests that pass, reads and locks
\* ------------------------------------------------------------------------
\* 0 stands for a body without minutes, NaN for minutes: "abc"
FrameMinutesInputs == {0, 15, NaN}

FrameUnlockConfirmStart ==
  \E r \in 1..MaxReq, deviceId \in UnlockDeviceInputs, minutes \in FrameMinutesInputs,
     txHash \in {"", "txExact", "txShort", "txFailed", "txNone"} :
    /\ NoneSuspended
    /\ UnlockConfirmStart(r, deviceId, minutes, txHash)

FrameNext ==
  \/ FrameUnlockConfirmStart
  \/ DoUnlockConfirmFinish
  \/ DoDeviceState
  \/ DoDeviceLock
  \/ DevTick

SpecFrame == InitEvm /\ [][FrameNext]_vars

\* ------------------------------------------------------------------------
\* Specification of unlock confirmations in flight at the same time: a
\* request is accepted while another is suspended on its verification, and
\* the verifications return in any order
\* ------------------------------------------------------------------------
\* routes/payment.js
OverlapPayStart ==
  \E r \in 1..MaxReq, deviceId \in {"bike-1", "bike-2"},
     txHash \in {"payExact", "payShort"} :
    /\ Deployed({"pay-unlock-confirm"})
    /\ \A q \in 1..MaxReq : reqs[q].pc # "receipt"
    /\ PayUnlockConfirmStart(r, deviceId, 15, txHash)

\* server.js
OverlapApiStart ==
  \E r \in 1..MaxReq, deviceId \in {"bike-1", "bike-2"},
     txHash \in {"txExact", "txShort"} :
    /\ Deployed({"api-unlock-confirm"})
    /\ \A q \in 1..MaxReq : reqs[q].pc # "basePayment"
    /\ UnlockConfirmStart(r, deviceId, 15, txHash)

OverlapNext ==
  \/ OverlapPayStart
  \/ DoPayUnlockConfirmFinish
  \/ OverlapApiStart
  \/ DoUnlockConfirmFinish
  \/ DevTick

SpecOverlap == Init /\ [][OverlapNext]_vars

\* ------------------------------------------------------------------------
\* Specification of the writes to the challenge table: one wallet, requests
\* accepted while others are suspended on the chain query
\* ------------------------------------------------------------------------
RecordsVerifyStart == DoX402VerifyStart({"walletA"}, {"txPay", "txLow"})

RecordsNext ==
  \/ CmdChallenge
  \/ RecordsVerifyStart
  \/ DoX402VerifyFinish
  \/ CmdTick

SpecRecords == Init /\ [][RecordsNext]_vars

\* ------------------------------------------------------------------------
\* Specification of usdcToUnits (server.js) as a function of its argument
\* ------------------------------------------------------------------------
\* the longest fractional part of an argument: one digit more than is kept
MaxFracLen == 7

\* decimal strings: a whole part, and after the point no digit (also: no
\* point) up to MaxFracLen digits
AmountInputs ==
  {Decimal(whole, frac) :
     whole \in 0..2,
     frac \in UNION {[1..n -> {0, 1, 9}] : n \in 0..MaxFracLen}}

InitUnits ==
  /\ now = 0
  /\ challenges = << >>
  /\ reqs = [r \in 1..MaxReq |-> Idle]
  /\ last = NoResponse
  /\ grants = [c \in 1..MaxChallenges |-> 0]
  /\ held = NoToken
  /\ deviceStates = << >>
  /\ stateFile = << >>
  /\ proofUses = << >>
  /\ calc \in {[amountStr |-> a, units |-> Pending] : a \in AmountInputs}

\* the call returns
UnitsReturn ==
  /\ calc.units = Pending
  /\ calc' = [calc EXCEPT !.units = usdcToUnits(calc.amountStr)]
  /\ UNCHANGED << now, challenges, reqs, last, grants, held, deviceStates, stateFile, proofUses >>

SpecUnits == InitUnits /\ [][UnitsReturn]_vars

\* ------------------------------------------------------------------------
\* Properties of the X.402 payment flow
\* ------------------------------------------------------------------------

\* C1: of the verify requests that present the same challenge while they are
\* in flight together, at most one is answered verified:true with a token.
C1_OneGrantPerChallenge == \A c \in DOMAIN grants : grants[c] <= 1

\* C2: a transaction id that has produced an access token for one challenge
\* never produces one for another challenge.
C2_TxGrantsOnce ==
  \A c1, c2 \in DOMAIN challenges :
    (c1 # c2 /\ challenges[c1].paid /\ challenges[c2].paid
       /\ challenges[c1].accessToken # NoToken
       /\ challenges[c2].accessToken # NoToken)
    => challenges[c1].txHash # challenges[c2].txHash

Consumed(challengeId) ==
  /\ challengeId \in DOMAIN challenges
  /\ challenges[challengeId].paid

\* a step that answers a POST /x402/:deviceId/verify request which presents
\* a challenge that was consumed before the step
AnswersConsumed ==
  /\ last' # last
  /\ last'.route = "x402verify"
  /\ Consumed(last'.challengeId)

\* a step in which the handler of POST /x402/:deviceId/verify answers the
\* request of last' that carries this wallet and this txHash
ArrivesWith(walletAddress, txHash) ==
  \E r \in 1..MaxReq :
    X402VerifyStart(r, last'.deviceId, walletAddress, last'.challengeId, txHash)

C5_NoGrantAfterExpiry ==
  (last.route = "x402verify" /\ last.status = 200)
  => last.at <= challenges[last.challengeId].expiresAt

\* C6: the answer to a verify request on a consumed challenge carries no
\* credential.
C6_NoCredentialOn409 ==
  (last.route = "x402verify" /\ last.status = 409) => last.token = NoToken

\* ------------------------------------------------------------------------
\* Properties of the credentials and of the commands they gate
\* ------------------------------------------------------------------------
SessionRoutes == {"unlock", "lock"}
X402Routes == {"x402unlock", "x402lock"}

\* the token of the Authorization header of the last request
Presented == last.auth.token

\* C4: a session token is obtained from POST /devices/:deviceId/verify, and a
\* device is unlocked by POST /api/unlock-confirm, only when a chain query
\* made for that request returned a positive result.
C4_AccessOnlyAfterChainCheck ==
  /\ (last.route = "verify" /\ last.token # NoToken) => last.chain = "positive"
  /\ (last.route = "unlock-confirm" /\ last.status = 200)
       => last.chain = "positive"

\* the last request is an X.402 command that presents, for another device,
\* an access token that the server issued
ForeignX402Token ==
  /\ last.route \in X402Routes
  /\ last.auth.scheme = "bearer"
  /\ Presented.type = "x402-access"
  /\ Presented.sig = "ok"
  /\ Presented.deviceId # last.deviceId

\* C7 as stated: an X.402 command that presents an access token issued for
\* another device is answered 403.
C7_Original == ForeignX402Token => last.status = 403

\* C7 as amended: an X.402 command that presents an access token issued for
\* another device never succeeds: it is answered 403 before the token's exp
\* and 401 from its exp on.
C7_ForeignTokenRefused ==
  ForeignX402Token =>
    last.status = IF last.at < Presented.exp THEN 403 ELSE 401

\* an unexpired access token of one device was refused on another device
C7_Witness == ForeignX402Token /\ last.at < Presented.exp /\ last.status = 403

\* C8: a session-token command that presents a valid token issued for
\* another device than the one in the path does not succeed.
C8_SessionTokenDeviceBound ==
  (/\ last.route \in SessionRoutes
   /\ last.auth.scheme = "bearer"
   /\ Presented.sig = "ok"
   /\ last.at < Presented.exp
   /\ Presented.deviceId # last.deviceId)
  => last.status # 200

\* the last request is a lock or unlock command without a Bearer header,
\* with a token whose signature does not verify, or with an expired token
Unauthenticated ==
  /\ last.route \in SessionRoutes \cup X402Routes
  /\ \/ last.auth.scheme # "bearer"
     \/ Presented.sig # "ok"
     \/ last.at >= Presented.exp

C10_BrewNeedsCredential ==
  (last.route = "brew" /\ last.status = 200) =>
    /\ last.auth.scheme = "bearer"
    /\ Presented.sig = "ok"
    /\ last.at < Presented.exp
    /\ Presented.deviceId = last.deviceId

\* ------------------------------------------------------------------------
\* Properties of the payment proofs
\* ------------------------------------------------------------------------
\* a step in which request r of POST /api/unlock-confirm is answered after
\* its receipt query has returned
ConfirmAnswered(r) == reqs[r].pc = "receipt" /\ reqs'[r].pc = "idle"

\* C11: a transaction hash unlocks a device through POST /api/unlock-confirm
\* at most once.
C11_ProofUnlocksOnce == \A t \in DOMAIN proofUses : proofUses[t] <= 1

\* the log is a Transfer event of the token contract whose recipient topic
\* names the receiver
IsTransferTo(log, contract, receiver) ==
  /\ toLowerCase(log.address) = contract
  /\ Len(log.topics) >= 3
  /\ toLowerCase(log.topics[1]) = TRANSFER_TOPIC
  /\ toLowerCase(TopicAddress(log.topics[3])) = receiver

RECURSIVE SumOfValues(_, _)
\* the sum of the values of the logs at the indices of the set
SumOfValues(logs, indices) ==
  IF indices = {} THEN 0
  ELSE LET i == CHOOSE j \in indices : TRUE
       IN (IF logs[i].data > 0 THEN logs[i].data ELSE 0)
          + SumOfValues(logs, indices \ {i})

\* the sum of the token transfers to the receiver that the receipt records
TransferredTo(receipt, contract, receiver) ==
  SumOfValues(receipt.logs,
              {i \in 1..Len(receipt.logs) :
                 IsTransferTo(receipt.logs[i], contract, receiver)})

\* the same for the contract and the receiver of POST /api/unlock-confirm
TransferredToReceiver(receipt) ==
  TransferredTo(receipt, BASE_USDC_CONTRACT, BASE_USDC_RECEIVER)

\* the receipt of a transaction that succeeded and whose logs can be read
Readable(receipt) ==
  /\ receipt.found
  /\ receipt.status = "0x1"
  /\ \A i \in 1..Len(receipt.logs) : receipt.logs[i].data # BadData

\* C14: POST /api/unlock-confirm unlocks the device only if the transfers to
\* the receiver sum to at least usdcToUnits(calculatePriceUSDC(minutes)); on
\* a readable receipt a sum equal to or above the requirement is accepted and
\* a sum below it, one unit below included, is answered 400 with the device
\* table unchanged.
C14_ExactIntegerComparison ==
  [][\A r \in 1..MaxReq :
       ConfirmAnswered(r) =>
         LET receipt == Receipt(reqs[r].txHash)
             paid == TransferredToReceiver(receipt)
             required == usdcToUnits(calculatePriceUSDC(reqs[r].minutes))
         IN /\ reqs[r].minutes <= 15 => required = 100000
            /\ deviceStates' # deviceStates => last'.status = 200
            /\ last'.status = 200 =>
                 /\ paid >= required
                 /\ deviceStates' = setUnlocked(reqs[r].deviceId, reqs[r].minutes)
            /\ (last'.chain # "error" /\ Readable(receipt) /\ paid >= required)
                 => last'.status = 200
            /\ paid < required =>
                 /\ last'.status \in {400, 500}
                 /\ deviceStates' = deviceStates
            /\ (last'.chain # "error" /\ paid < required) => last'.status = 400]_vars

\* a sum equal to the requirement has unlocked a device
C14_Witness ==
  /\ last.route = "api-unlock-confirm"
  /\ last.status = 200
  /\ last.txHash = "txExact"
  /\ deviceStates[last.deviceId].state = "unlocked"
  /\ TransferredToReceiver(Receipt("txExact"))
       = usdcToUnits(calculatePriceUSDC(15))
  /\ TransferredToReceiver(Receipt("txShort"))
       = usdcToUnits(calculatePriceUSDC(15)) - 1

\* C15: the amount POST /api/unlock-confirm computes from a readable receipt
\* is the sum of the values of the Transfer logs of the USDC contract whose
\* recipient topic names the receiver; the other logs add nothing and several
\* such logs are added together.
C15_PaidIsSumOfTransfers ==
  [][\A r \in 1..MaxReq :
       (ConfirmAnswered(r) /\ last'.chain # "error"
          /\ Readable(Receipt(reqs[r].txHash)))
       => /\ PaidUnits(Receipt(reqs[r].txHash).logs, 1)
               = TransferredToReceiver(Receipt(reqs[r].txHash))
          /\ last'.status =
               IF TransferredToReceiver(Receipt(reqs[r].txHash))
                    >= usdcToUnits(calculatePriceUSDC(reqs[r].minutes))
               THEN 200 ELSE 400]_vars

\* two transfers of 60000 and 50000 units have unlocked a device, and a
\* receipt with other logs around a transfer of 40000 units has been refused
C15_Witness ==
  /\ "txSplit" \in DOMAIN proofUses
  /\ TransferredToReceiver(Receipt("txSplit")) = 110000
  /\ TransferredToReceiver(Receipt("txMixed")) = 40000
  /\ last.route = "api-unlock-confirm"
  /\ last.txHash = "txMixed"
  /\ last.status = 400

\* a step in which request r of POST /x402/:deviceId/verify is answered after
\* its chain query has returned
VerifyAnswered(r) == reqs[r].pc = "await" /\ reqs'[r].pc = "idle"

\* a step in which request r of POST /unlock-confirm is answered
PayAnswered(r) == reqs[r].pc = "basePayment" /\ reqs'[r].pc = "idle"

\* the chain reports the transaction as failed
EvmFailed(receipt) == receipt.found /\ receipt.status # "0x1"
SolanaFailed(tx) == tx.found /\ (~tx.hasMeta \/ tx.err)

\* C12: a transaction that the chain reports as failed never verifies.  POST
\* /api/unlock-confirm on a receipt whose status is not 0x1 is refused and
\* leaves the device table unchanged; verifySolanaTsePaymentByTx answers
\* verified:false when tx.meta is absent or tx.meta.err is set, so the verify
\* route answers 402, issues no token and leaves the challenge unconsumed.
C12_FailedTxNeverVerifies ==
  [][\A r \in 1..MaxReq :
       /\ (ConfirmAnswered(r) /\ EvmFailed(Receipt(reqs[r].txHash)))
            => /\ last'.status \in {400, 500}
               /\ last'.chain = "error" \/ last'.status = 400
               /\ deviceStates' = deviceStates
       /\ (VerifyAnswered(r) /\ SolanaFailed(ChainTx(reqs[r].txHash)))
            => /\ ~verifySolanaTsePaymentByTx("ok", reqs[r].txHash,
                                              TSE_RECEIVER_WALLET, TSE_MINT,
                                              challenges[reqs[r].challengeId].amount)
               /\ last'.status = 402
               /\ last'.token = NoToken
               /\ challenges' = challenges]_vars

\* a receipt with status 0x0 and the logs of a sufficient payment has been
\* refused by POST /api/unlock-confirm
C12_Witness ==
  /\ last.route = "api-unlock-confirm"
  /\ last.txHash = "txFailed"
  /\ last.status = 400
  /\ TransferredToReceiver(Receipt("txFailed"))
       >= usdcToUnits(calculatePriceUSDC(15))
  /\ \A d \in DOMAIN deviceStates : deviceStates[d].state = "locked"

\* C13: POST /unlock-confirm of routes/payment.js never unlocks a device on a
\* receipt with an on-chain failure status: verifyBasePayment answers false
\* for it, whatever its logs.
C13_FailedReceiptNeverPays ==
  (last.route = "pay-unlock-confirm" /\ EvmFailed(Receipt(last.txHash)))
  => last.status # 200

\* C16: verifyBasePayment answers true exactly when the Transfer logs of the
\* token contract that name the receiver, wherever they sit in the list, sum
\* to at least the expected amount.
C16_BasePaymentIsSumOfTransfers ==
  [][\A r \in 1..MaxReq :
       (PayAnswered(r) /\ last'.chain # "error" /\ Receipt(reqs[r].txHash).found)
       => (last'.status = 200
             <=> TransferredTo(Receipt(reqs[r].txHash), USDC_ADDRESS, RECEIVER)
                   >= parseFloat(priceFor(reqs[r].minutes)))]_vars

\* the pre-transaction balance of the token account: 0 for an account the
\* transaction created
PreAmount(pre, accountIndex) ==
  IF \E i \in 1..Len(pre) : pre[i].accountIndex = accountIndex
  THEN pre[CHOOSE i \in 1..Len(pre) : pre[i].accountIndex = accountIndex].amount
  ELSE 0

RECURSIVE SumOfGains(_, _, _)
\* the sum, over the post-balance entries at the indices of the set, of the
\* positive difference between the account's balance after and before
SumOfGains(pre, post, indices) ==
  IF indices = {} THEN 0
  ELSE LET i == CHOOSE j \in indices : TRUE
           diff == post[i].amount - PreAmount(pre, post[i].accountIndex)
       IN (IF diff > 0 THEN diff ELSE 0) + SumOfGains(pre, post, indices \ {i})

\* what the token accounts of the mint owned by one of the owners gained
GainedBy(tx, mint, owners) ==
  SumOfGains(tx.preTokenBalances, tx.postTokenBalances,
             {i \in 1..Len(tx.postTokenBalances) :
                /\ tx.postTokenBalances[i].mint = mint
                /\ tx.postTokenBalances[i].owner \in owners})

Owners(tx) ==
  {tx.postTokenBalances[i].owner : i \in 1..Len(tx.postTokenBalances)}

\* C17: POST /x402/:deviceId/verify issues an access token only if, in the
\* presented transaction, the token accounts of the challenge's receiver
\* gained at least the challenge amount of the TSE mint.
C17_PaidToReceiver ==
  (last.route = "x402verify" /\ last.status = 200)
  => GainedBy(ChainTx(last.txHash), TSE_MINT,
              {challenges[last.challengeId].receiver})
       >= challenges[last.challengeId].amount

\* the balances of the transaction can be read
SolanaReadable(tx) ==
  /\ tx.found
  /\ tx.hasMeta
  /\ ~tx.err
  /\ \A i \in 1..Len(tx.postTokenBalances) : tx.postTokenBalances[i].amount # NoAmount
  /\ \A i \in 1..Len(tx.preTokenBalances) : tx.preTokenBalances[i].amount # NoAmount

\* C18: the amount verifySolanaTsePaymentByTx computes is the sum, over the
\* token accounts of the mint, of the positive difference between the same
\* account's balance after and before the transaction.
C18_GainPairedByAccount ==
  (/\ last.route = "x402verify"
   /\ last.chain \in {"positive", "negative"}
   /\ SolanaReadable(ChainTx(last.txHash)))
  => LET tx == ChainTx(last.txHash)
     IN SumReceived(tx.preTokenBalances, tx.postTokenBalances, TSE_MINT, 1)
          = GainedBy(tx, TSE_MINT, Owners(tx))

\* the node's answer is missing or cannot be read: no transaction, no meta or
\* a balance entry without amount; no receipt, or a receipt none of whose
\* logs has three topics and a hexadecimal value
Unusable(route, txHash) ==
  IF route = "x402verify"
  THEN LET tx == ChainTx(txHash)
       IN \/ ~tx.found
          \/ ~tx.hasMeta
          \/ \E i \in 1..Len(tx.postTokenBalances) :
               tx.postTokenBalances[i].amount = NoAmount
  ELSE LET receipt == Receipt(txHash)
       IN \/ ~receipt.found
          \/ /\ Len(receipt.logs) > 0
             /\ \A i \in 1..Len(receipt.logs) :
                  \/ receipt.logs[i].data \in {NoData, BadData}
                  \/ Len(receipt.logs[i].topics) < 3

\* C19: when the chain query of a verification throws, or returns a missing
\* or unreadable result, the request is refused: no access token is issued,
\* no challenge is consumed and no device is unlocked.
C19_FailsClosed ==
  [][\A r \in 1..MaxReq :
       (/\ VerifyAnswered(r) \/ ConfirmAnswered(r) \/ PayAnswered(r)
        /\ last'.chain = "error" \/ Unusable(last'.route, reqs[r].txHash))
       => /\ last'.status \in {400, 402, 500}
          /\ last'.token = NoToken
          /\ UNCHANGED << challenges, grants, deviceStates, stateFile >>]_vars

\* the chain query for a transaction that pays the challenge has thrown, and
\* the request was answered 402 with the challenge left unconsumed
C19_Witness ==
  /\ last.route = "x402verify"
  /\ last.chain = "error"
  /\ last.txHash = "txPay"
  /\ last.status = 402
  /\ ~challenges[last.challengeId].paid

\* C20: every request of POST /api/unlock-confirm that has sent its query to
\* the chain RPC is eventually answered.
C20_EventuallyAnswered ==
  \A r \in 1..MaxReq : (reqs[r].pc = "receipt") ~> (reqs[r].pc = "idle")

\* ------------------------------------------------------------------------
\* Properties of the device state machine
\* ------------------------------------------------------------------------
\* the read finds the device unlocked and the end of its window reached
ReadAtOrAfterExpiry(id) ==
  Found(id).state = "unlocked" /\ NowMs >= Found(id).unlockUntil

\* C21: a read of an unlocked device at any time now >= unlockUntil, the
\* instant now = unlockUntil included, reports locked with remaining 0 and
\* leaves the record locked.
C21_ReadAtExpiryReportsLocked ==
  [][\A id \in DeviceIdInputs :
       /\ (DeviceState(id) /\ ReadAtOrAfterExpiry(id)) =>
            /\ last'.state = "locked"
            /\ last'.remainingMs = 0
            /\ deviceStates'[id] = NewDevice
       /\ (DevDeviceState(id) /\ ReadAtOrAfterExpiry(id)) =>
            /\ last'.state = "locked"
            /\ deviceStates'[id] = NewDevice]_vars

\* the read finds the device unlocked and the end of its window ahead
ReadBeforeExpiry(id) ==
  Found(id).state = "unlocked" /\ NowMs < Found(id).unlockUntil

\* C22: a read strictly before unlockUntil reports unlocked with
\* remainingMs = unlockUntil - now > 0; an accepted unlock for N minutes sets
\* unlockUntil = now + N * 60000, so that a read at the instant of the unlock
\* reports remainingMs = N * 60000.
C22_RemainingIsTimeLeft ==
  [][/\ \A id \in DeviceIdInputs :
          (DeviceState(id) /\ ReadBeforeExpiry(id)) =>
            /\ last'.state = "unlocked"
            /\ last'.unlockUntil = deviceStates[id].unlockUntil
            /\ last'.remainingMs = deviceStates[id].unlockUntil - NowMs
            /\ last'.remainingMs > 0
            /\ deviceStates' = deviceStates
     /\ \A r \in 1..MaxReq :
          (ConfirmAnswered(r) /\ last'.status = 200) =>
            LET id == reqs[r].deviceId
                N == reqs[r].minutes
            IN /\ deviceStates'[id].state = "unlocked"
               /\ deviceStates'[id].unlockUntil = NowMs + N * 60 * 1000
               /\ last'.unlockUntil = NowMs + N * 60 * 1000
     /\ \A id \in DeviceIdInputs :
          (/\ DeviceState(id)
           /\ last.route = "api-unlock-confirm" /\ last.status = 200
           /\ last.deviceId = id /\ last.at = now
           /\ last.unlockUntil > NowMs) =>
            last'.remainingMs = last.unlockUntil - NowMs]_vars

\* a read at the instant of an unlock for 15 minutes has reported 900000 ms
C22_Witness ==
  /\ last.route = "api-state"
  /\ last.prior.state = "unlocked"
  /\ last.state = "unlocked"
  /\ last.remainingMs = 15 * 60 * 1000

\* C23: the file-backed GET /devices/:id/state never reports unlocked at a
\* time later than the unlockUntil that POST /unlock-confirm wrote.
C23_FileReadNeverUnlockedPastExpiry ==
  (last.route = "pay-state" /\ last.state = "unlocked") =>
    StartMs + last.at * 1000 <= last.unlockUntil

\* C24: every unlock window ends: after an accepted POST /api/unlock-confirm,
\* whatever minutes it carried, with no further unlock and reads that keep
\* happening, from some read on every read of the device reports locked.
C24_WindowEnds ==
  \A id \in {"bike-1", "bike-2"} :
    <>[]((last.route = "api-state" /\ last.deviceId = id) => last.state = "locked")

\* C25: windows do not stack: an unlock of a device that is already unlocked
\* sets unlockUntil to the time of this unlock plus its own minutes, even when
\* that is earlier than the unlockUntil it replaces.
C25_WindowsDoNotStack ==
  [][/\ \A r \in 1..MaxReq :
          (ConfirmAnswered(r) /\ last'.status = 200
             /\ Found(reqs[r].deviceId).state = "unlocked") =>
            deviceStates'[reqs[r].deviceId] =
              [state |-> "unlocked",
               unlockUntil |-> NowMs + reqs[r].minutes * 60 * 1000]
     /\ \A id \in DeviceIdInputs, m2 \in WindowMinutesInputs :
          (DevUnlockConfirm(id, m2, "txExact") /\ Found(id).state = "unlocked") =>
            deviceStates'[id] =
              [state |-> "unlocked", unlockUntil |-> NowMs + m2 * 60 * 1000]]_vars

\* a second unlock has shortened the window of a device
C25_Witness ==
  /\ last.route = "api-unlock-confirm"
  /\ last.status = 200
  /\ last.prior.state = "unlocked"
  /\ last.unlockUntil < last.prior.unlockUntil
  /\ deviceStates[last.deviceId].unlockUntil = last.unlockUntil

\* C26: POST /api/devices/:id/lock leaves the record locked with unlockUntil 0
\* from every prior state, touches no other record, and locking again changes
\* nothing.
C26_LockIsTotalAndIdempotent ==
  [][\A id \in DeviceIdInputs :
       DeviceLock(id) =>
         /\ deviceStates'[id] = [state |-> "locked", unlockUntil |-> 0]
         /\ last'.unlockUntil = 0
         /\ \A d \in DOMAIN deviceStates : d # id => deviceStates'[d] = deviceStates[d]
         /\ DOMAIN deviceStates' = (DOMAIN deviceStates) \cup {id}
         /\ setLocked(id)' = deviceStates']_vars

\* a lock has been applied to a device whose window was still open
C26_Witness ==
  /\ last.route = "api-lock"
  /\ last.prior.state = "unlocked"
  /\ last.prior.unlockUntil > StartMs + last.at * 1000
  /\ deviceStates[last.deviceId] = [state |-> "locked", unlockUntil |-> 0]

\* C27: the first reference to a device id never seen before, by a read or by
\* a lock, observes state locked with unlockUntil 0, and from then on the
\* table holds the one record of that id.
C27_FirstReferenceIsLocked ==
  [][\A id \in DeviceIdInputs :
       /\ ((DeviceState(id) \/ DevDeviceState(id)) /\ id \notin DOMAIN deviceStates) =>
            /\ last'.state = "locked"
            /\ last'.unlockUntil = 0
            /\ deviceStates'[id] = NewDevice
       /\ (DeviceLock(id) /\ id \notin DOMAIN deviceStates) =>
            /\ last'.unlockUntil = 0
            /\ deviceStates'[id] = NewDevice
       /\ id \in DOMAIN deviceStates => id \in DOMAIN deviceStates']_vars

\* ------------------------------------------------------------------------
\* Properties of the credentials
\* ------------------------------------------------------------------------
\* C28: every issued credential, session token or X.402 access token, has
\* exp = iat + 1800 seconds, and the expiresAt of the X.402 verify response
\* is the exp of the token it carries.
C28_TokenLifetime ==
  (last.token # NoToken /\ last.route \in {"verify", "x402verify"}) =>
    /\ last.token.exp = last.token.iat + TOKEN_TTL
    /\ (last.route = "x402verify" /\ last.status = 200) =>
         last.expiresAt = last.token.exp * 1000

\* a validly signed, unexpired token of another type than x402-access is
\* presented as bearer to a route behind requireX402
OtherTypePresented ==
  /\ last.route \in X402Routes
  /\ last.auth.scheme = "bearer"
  /\ JwtVerify(Presented, last.at)
  /\ Presented.type # "x402-access"

\* C29: requireX402 answers 401 to every validly signed, unexpired token
\* whose type is not x402-access, a session token included, and the handler
\* behind it does not run.
C29_OtherTokenTypesRejected == OtherTypePresented => last.status = 401

\* a session token issued for the device of the path was refused
C29_Witness ==
  /\ OtherTypePresented
  /\ Presented.type = "lock-session"
  /\ Presented.deviceId = last.deviceId
  /\ last.status = 401

\* the request names a known challenge with another device or another
\* wallet than the challenge was issued for
Mismatched(deviceId, walletAddress, challengeId) ==
  /\ challengeId \in DOMAIN challenges
  /\ \/ challenges[challengeId].deviceId # deviceId
     \/ challenges[challengeId].walletAddress # walletAddress

\* C30: a POST /x402/:deviceId/verify whose path deviceId or body
\* walletAddress differs from the challenge's never reaches the chain query
\* and is answered 400 or 404: it obtains no token and leaves the challenge
\* as it was, even when its txHash would verify.
C30_MismatchRefused ==
  [][/\ \A r \in 1..MaxReq :
          (reqs[r].pc = "idle" /\ reqs'[r].pc = "await") =>
            ~Mismatched(reqs'[r].deviceId, reqs'[r].walletAddress,
                        reqs'[r].challengeId)
     /\ \A walletAddress \in WalletInputs, txHash \in TxInputs :
          (/\ last' # last
           /\ last'.route = "x402verify"
           /\ Mismatched(last'.deviceId, walletAddress, last'.challengeId)
           /\ ArrivesWith(walletAddress, txHash)) =>
            /\ last'.status \in {400, 404}
            /\ last'.token = NoToken
            /\ reqs' = reqs
            /\ challenges' = challenges
            /\ grants' = grants]_vars

\* a request for another device than the challenge's has been answered 400
\* while the challenge was unpaid and not expired
C30_Witness ==
  /\ last.route = "x402verify"
  /\ last.status = 400
  /\ last.challengeId \in DOMAIN challenges
  /\ DeviceFound(last.deviceId)
  /\ challenges[last.challengeId].deviceId # last.deviceId
  /\ ~challenges[last.challengeId].paid
  /\ ~Expired(challenges[last.challengeId], last.at)

\* ------------------------------------------------------------------------
\* Properties of the device catalog
\* ------------------------------------------------------------------------
\* C31: POST /x402/:deviceId/challenge creates a challenge only for a device
\* of the catalog and a non-empty walletAddress: an unknown device is
\* answered 404, a missing walletAddress 400, and in both cases the challenge
\* table is unchanged.
C31_ChallengeOnlyForCatalogDevice ==
  [][\A deviceId \in CatalogInputs, walletAddress \in ChallengeWalletInputs :
       X402Challenge(deviceId, walletAddress) =>
         IF deviceId \notin DOMAIN devices
         THEN last'.status = 404 /\ challenges' = challenges
         ELSE IF walletAddress = ""
         THEN last'.status = 400 /\ challenges' = challenges
         ELSE /\ last'.status = 200
              /\ Len(challenges') = Len(challenges) + 1]_vars

\* ------------------------------------------------------------------------
\* Properties of the price arithmetic
\* ------------------------------------------------------------------------
\* the i-th digit after the point, 0 where the string has none
FracDigit(amountStr, i) ==
  IF i <= Len(amountStr.frac) THEN amountStr.frac[i] ELSE 0

\* C32: usdcToUnits converts a decimal string to integer minor units exactly:
\* the whole part times 10^6 plus the first six fractional digits, padded
\* with zeros on the right and cut after the sixth; "0.10" gives 100000,
\* "0.01" gives 10000 and "1.00" gives 1000000.
C32_UnitsAreExact ==
  /\ calc.units # Pending =>
       calc.units = calc.amountStr.whole * 1000000
                    + FracDigit(calc.amountStr, 1) * 100000
                    + FracDigit(calc.amountStr, 2) * 10000
                    + FracDigit(calc.amountStr, 3) * 1000
                    + FracDigit(calc.amountStr, 4) * 100
                    + FracDigit(calc.amountStr, 5) * 10
                    + FracDigit(calc.amountStr, 6)
  /\ usdcToUnits(Decimal(0, << 1, 0 >>)) = 100000
  /\ usdcToUnits(Decimal(0, << 0, 1 >>)) = 10000
  /\ usdcToUnits(Decimal(1, << 0, 0 >>)) = 1000000

\* a string with a seventh fractional digit of 9 has been converted
C32_Witness ==
  /\ calc.amountStr = Decimal(1, << 0, 1, 0, 0, 0, 0, 9 >>)
  /\ calc.units = 1010000

\* ------------------------------------------------------------------------
\* Properties of the challenge table
\* ------------------------------------------------------------------------
\* the statuses with which POST /x402/:deviceId/verify refuses
VerifyFailures == {400, 402, 404, 409, 410}

Unconsumed(record) ==
  ~record.paid /\ record.txHash = "" /\ record.accessToken = NoToken

\* a record as a successful verify leaves it
ConsumedRecord(record) ==
  record.paid /\ record.txHash # "" /\ record.accessToken # NoToken

\* C34: every challenge record is either unconsumed (paid false, no txHash,
\* no accessToken) or consumed (paid true, txHash and accessToken set); no
\* step takes paid back to false, changes the deviceId, walletAddress,
\* amount, receiver or expiresAt of a record, or removes a record.
C34_RecordsWellFormed ==
  [][/\ \A c \in DOMAIN challenges' :
          Unconsumed(challenges'[c]) \/ ConsumedRecord(challenges'[c])
     /\ \A c \in DOMAIN challenges :
          /\ c \in DOMAIN challenges'
          /\ challenges[c].paid => challenges'[c].paid
          /\ challenges'[c].deviceId = challenges[c].deviceId
          /\ challenges'[c].walletAddress = challenges[c].walletAddress
          /\ challenges'[c].amount = challenges[c].amount
          /\ challenges'[c].receiver = challenges[c].receiver
          /\ challenges'[c].expiresAt = challenges[c].expiresAt]_vars

\* a verify has consumed a record while another request for it is in flight
C34_Witness ==
  /\ last.route = "x402verify"
  /\ last.status = 200
  /\ ConsumedRecord(challenges[last.challengeId])
  /\ \E r \in DOMAIN reqs : reqs[r].pc = "await"

\* C35: every success of POST /x402/:deviceId/unlock or /lock is preceded by
\* a successful POST /x402/:deviceId/verify for the same deviceId, whose
\* token is the one presented; that deviceId is in the device catalog, and
\* the response happens before the exp of that token.
C35_CommandFollowsVerify ==
  (last.route \in X402Routes /\ last.status = 200) =>
    /\ last.deviceId \in DOMAIN devices
    /\ \E c \in DOMAIN challenges :
         /\ challenges[c].paid
         /\ challenges[c].deviceId = last.deviceId
         /\ challenges[c].accessToken = Presented
    /\ last.at < Presented.exp

\* C36: a lock or unlock command succeeds only on a device whose catalog
\* entry has supportsLock = true, whatever challenge, verify and command
\* requests came before.
C36_CommandsOnlyOnLocks ==
  (last.route \in X402Routes \cup SessionRoutes /\ last.status = 200) =>
    /\ last.deviceId \in DOMAIN devices
    /\ devices[last.deviceId].supportsLock

\* ------------------------------------------------------------------------
\* Properties of the device table of server.js
\* ------------------------------------------------------------------------
\* C37: in the in-memory device table a record is locked exactly when its
\* unlockUntil is 0, after any sequence of reads, accepted unlock-confirms
\* and locks.
C37_LockedIffNoWindow ==
  \A id \in DOMAIN deviceStates :
    (deviceStates[id].state = "locked") <=> (deviceStates[id].unlockUntil = 0)

\* the window of the record has run out
WindowExpired(d) == d.state = "unlocked" /\ NowMs > d.unlockUntil

\* C38: a device record changes only through a successful unlock, a lock or
\* the expiry check of a read: every POST /api/unlock-confirm that is not
\* answered 200 leaves the device table unchanged, and a read of a device
\* whose window has not expired changes no existing record.
C38_FailuresLeaveDevices ==
  [][/\ (/\ last'.route = "api-unlock-confirm"
          /\ last'.status # 200
          /\ (last' # last \/ \E r \in 1..MaxReq : ConfirmAnswered(r))) =>
           deviceStates' = deviceStates
     /\ \A id \in {"bike-1", "bike-2"} :
          (DeviceState(id) /\ ~WindowExpired(Found(id))) =>
            \A d \in DOMAIN deviceStates : deviceStates'[d] = deviceStates[d]]_vars

\* the table has the device unlocked
Unlocked(table, id) == id \in DOMAIN table /\ table[id].state = "unlocked"

\* C39: unlock confirmations in flight at the same time lose no update: when
\* a verified POST /unlock-confirm completes, the stored state has its device
\* unlocked and every device that was unlocked before still is, whichever
\* request started first and whichever verification returned first; so
\* after two verified requests for two devices both are unlocked.
C39_NoLostUnlock ==
  [][/\ \A r \in 1..MaxReq :
          (PayAnswered(r) /\ last'.status = 200) =>
            /\ Unlocked(stateFile', reqs[r].deviceId)
            /\ \A d \in DOMAIN stateFile :
                 Unlocked(stateFile, d) => Unlocked(stateFile', d)
     /\ \A r \in 1..MaxReq :
          (ConfirmAnswered(r) /\ last'.status = 200) =>
            /\ Unlocked(deviceStates', reqs[r].deviceId)
            /\ \A d \in DOMAIN deviceStates :
                 Unlocked(deviceStates, d) => Unlocked(deviceStates', d)]_vars

\* two requests for two devices overlapped: the request in the second slot
\* was accepted while the first slot was suspended and is still suspended
\* on a payment that verifies, and meanwhile the request of the first slot
\* has completed and unlocked its device
C39_Witness ==
  /\ reqs[1].pc = "idle"
  /\ reqs[2].pc = "basePayment"
  /\ reqs[2].deviceId = "bike-2"
  /\ reqs[2].txHash = "payExact"
  /\ last.route = "pay-unlock-confirm"
  /\ last.status = 200
  /\ last.deviceId = "bike-1"
  /\ Unlocked(stateFile, "bike-1")

====
